---- MODULE Spec2Model ----
(***************************************************************************)
(* Model of the Vulkan backend's frame orchestration                       *)
(* (src/src/VK/Renderer.cpp): frame slots and their fences, swapchain      *)
(* image tracking, swapchain recreation, the deferred-deletion queue and   *)
(* the texture sampler replacement that feeds it (src/src/VK/Texture.cpp). *)
(* The CPU submission thread is one process whose position is pc; the GPU *)
(* is the other actor and completes submitted frames in submission order.  *)
(* An exception is caught nowhere in the application, so a throw ends the  *)
(* CPU thread (pc = "thrown").                                             *)
(***************************************************************************)
EXTENDS Integers, Sequences, FiniteSets, TLC

VARIABLES
    pc,                    \* position of the CPU thread inside the running handler
    retTo,                 \* caller of recreateSwapChain: "begin", "end" or "none"
    m_currentFrame,        \* Renderer::m_currentFrame
    m_imageIndex,          \* Renderer::m_imageIndex
    m_frameBegun,          \* Renderer::m_frameBegun
    m_framebufferResized,  \* Renderer::m_framebufferResized
    m_inFlightFences,      \* slot -> "signaled" | "unsignaled"
    m_imagesInFlight,      \* image -> NULL or the fence that tags the image
    numImages,             \* m_swapChainImages.size()
    gpuQueue,              \* frames submitted to the graphics queue and not yet completed
    m_deferredDeletions,   \* Renderer::m_deferredDeletions
    m_pipeline,            \* shader -> "none" (not loaded) | "null" | "built"
    m_currentShader,       \* Renderer::m_currentShader
    m_sampler,             \* Texture::m_sampler
    m_descriptorSet,       \* Texture::m_descriptorSet: NULL or the sampler it references
    m_currentTexture,      \* Renderer::m_currentTexture is the texture
    recorded,              \* sampler referenced by the command buffer being recorded
    minimized,             \* the window's framebuffer extent is zero
    presentResult,         \* result of vkQueuePresentKHR while endFrame handles it
    framesCompleted,       \* frames completed by endFrame, counted up to MaxFrames
    m_cullingEnabled,      \* Renderer::m_cullingEnabled
    m_cullMode,            \* shader -> the cull mode its pipeline was built with, if any
    m_renderPass,          \* Renderer::m_renderPass: VK_NULL_HANDLE or "created"
    m_transferCommandBuffers, \* pool slot -> [inUse, fence]
    transferCmd,           \* the slot acquire or endSingleTimeCommands works on, or NULL
    transferQueue,         \* pool slots submitted to the graphics queue, not yet completed
    held,                  \* slots whose command buffer a caller got and has not ended
    numSemaphores,         \* size of m_imageAvailableSemaphores and m_renderFinishedSemaphores
    m_imageAvailableSemaphores, \* index -> "signaled" (a signal awaits its wait) | "unsignaled"
    m_renderFinishedSemaphores, \* index -> "signaled" (a signal awaits its wait) | "unsignaled"
    m_pipelineLayout,      \* Renderer::m_pipelineLayout: VK_NULL_HANDLE or "created"
    m_descriptorSetLayout, \* Renderer::m_descriptorSetLayout: VK_NULL_HANDLE or "created"
    m_descriptorPool,      \* Renderer::m_descriptorPool: VK_NULL_HANDLE or "created"
    m_isValid,             \* shader -> ShaderProgram::m_isValid
    m_shaderManager,       \* Renderer::m_shaderManager is set
    shaderName,            \* argument of the running Renderer::onShaderLoaded, or NULL
    m_hasPendingUpdates,   \* shader -> ShaderProgram::m_hasPendingUpdates
    pushCount,             \* vkCmdPushConstants calls recorded by the latest beginFrame
    uniformCall,           \* [shader, name] of the latest ShaderProgram::setMat4; odd
                           \* tells a call from the one before it
    m_memoryBlocks,        \* MemoryAllocator::m_memoryBlocks: [memoryTypeIndex, size, used]
    request,               \* the latest allocateBufferMemory call: what it asked for and
                           \* what findMemoryType and vkAllocateMemory answered
    allocation,            \* what that call returned, or that it threw
    allocCalls,            \* calls of allocateBufferMemory so far
    allocations,           \* the allocations returned so far whose memory has not been
                           \* released: the pooled ones and the dedicated ones not freed
    allocatedSets,         \* descriptor sets taken from m_descriptorPool by the textures below
    textures,              \* the Texture objects whose descriptor sets are counted
    materialType,          \* "none", "Material" or "PBRMaterial": the material constructed
    m_shader,              \* Material::m_shader
    m_textureBindings,     \* Material::m_textureBindings
    m_samplerNameToIndex,  \* Material::m_samplerNameToIndex (indices from 0, as in the code)
    m_properties,          \* Material::m_properties
    materialCall,          \* the last call on the material and how it ended
    shaderCalls,           \* the calls that call made on the shader and the textures
    m_boundVertexArray,    \* Renderer::m_boundVertexArray is the vertex array
    destroyed              \* the objects whose destructor has run

frameVars == <<m_currentFrame, m_frameBegun, m_deferredDeletions, framesCompleted>>
syncVars == <<m_inFlightFences, m_imagesInFlight, numImages>>
shaderVars == <<m_pipeline, m_currentShader>>
textureVars == <<m_sampler, m_descriptorSet, m_currentTexture>>
pipelineVars == <<m_cullingEnabled, m_cullMode, m_renderPass>>
transferVars == <<m_transferCommandBuffers, transferCmd, transferQueue, held>>
semaphoreVars == <<numSemaphores, m_imageAvailableSemaphores, m_renderFinishedSemaphores>>
sharedVars == <<m_pipelineLayout, m_descriptorSetLayout, m_descriptorPool>>
entryVars == <<m_isValid, m_shaderManager, shaderName>>
pushVars == <<m_hasPendingUpdates, pushCount, uniformCall>>
allocatorVars == <<m_memoryBlocks, request, allocation, allocCalls, allocations>>
poolVars == <<allocatedSets, textures>>
materialVars == <<materialType, m_shader, m_textureBindings, m_samplerNameToIndex,
                  m_properties, materialCall, shaderCalls>>
objectVars == <<m_boundVertexArray, destroyed>>
laterVars == <<allocatorVars, poolVars, materialVars, objectVars>>
nonSharedVars == <<entryVars, pushVars, laterVars>>
resourceVars == <<sharedVars, nonSharedVars>>
nonPipelineExtVars == <<transferVars, semaphoreVars, resourceVars>>
extVars == <<pipelineVars, nonPipelineExtVars>>

vars == <<pc, retTo, m_imageIndex, m_framebufferResized, gpuQueue, recorded, minimized,
          presentResult, frameVars, syncVars, shaderVars, textureVars, extVars>>

\* ---------------------------------------------------------------- constants
MAX_FRAMES_IN_FLIGHT == 2
TRANSFER_COMMAND_BUFFER_POOL_SIZE == 4

\* ------------------------------------------------------------------- bounds
MaxImages == 3
MaxQueue == 1
MaxShaders == 1
MaxFrames == 5

NULL == 0
\* The null handle of the objects the model does not number.
VK_NULL_HANDLE == "VK_NULL_HANDLE"
Slots == 0 .. (MAX_FRAMES_IN_FLIGHT - 1)
Shaders == 1 .. MaxShaders
Handles == 1 .. (MaxQueue + 2)
ImageCounts == 2 .. MaxImages
TransferSlots == 1 .. TRANSFER_COMMAND_BUFFER_POOL_SIZE
\* The image count of the swapchain that initialize() creates: the smallest
\* one; recreations move through the others.
InitialImageCount == CHOOSE n \in ImageCounts : \A m \in ImageCounts : n <= m
VkResults == {"VK_SUCCESS", "VK_SUBOPTIMAL_KHR", "VK_ERROR_OUT_OF_DATE_KHR",
              "VK_ERROR_DEVICE_LOST"}

\* ------------------------------------------------------------------ helpers
Range(s) == {s[i] : i \in 1 .. Len(s)}

\* The VkFence handle stored in m_inFlightFences[k], and the slot of a handle.
FenceOf(k) == k + 1
SlotOfFence(f) == f - 1

\* The semaphore of the frame: m_imageAvailableSemaphores[m_currentFrame % size].
AcquireSemaphore == m_currentFrame % numSemaphores

\* Reading m_renderFinishedSemaphores[i]: element i; for an index past the
\* end of the vector the read is undefined: it yields what follows the
\* vector's storage, no semaphore of the vector (the model writes it i), and
\* the submission that uses it goes through or faults.
RenderFinishedFaults(i) == IF i < numSemaphores THEN {FALSE} ELSE BOOLEAN

\* The semaphores sems with the state of semaphore k set to v.
SetSemaphore(sems, k, v) ==
    [i \in DOMAIN sems |-> IF i = k THEN v ELSE sems[i]]

\* Handles of the samplers waiting in the deferred-deletion queue.
QueuedHandles(q) == {q[i].handle : i \in 1 .. Len(q)}

\* vkCreateSampler returns a handle that no live sampler has.
FreshHandle(live) == CHOOSE h \in Handles \ live : \A h2 \in Handles \ live : h <= h2

\* Variant of PipelineReady that tests only that a shader is selected.
PipelineReady_ShaderOnly == m_currentShader # NULL

\* beginFrame's first test: a shader is selected and its pipeline is not null.
PipelineReady == m_currentShader # NULL /\ m_pipeline[m_currentShader] = "built"

\* processDeferredDeletions: the distance of a record's tag from the counter.
\* The operands are below 2^32, so the unsigned sum does not wrap.
FrameDistance(cur, fi) ==
    (cur + MAX_FRAMES_IN_FLIGHT - fi) % (MAX_FRAMES_IN_FLIGHT * 10)

\* Variant of Due with a strict comparison of the frame distance.
Due_Strict(cur, r) == FrameDistance(cur, r.frameIndex) > MAX_FRAMES_IN_FLIGHT

\* processDeferredDeletions: the record is destroyed by a sweep at counter cur.
Due(cur, r) == FrameDistance(cur, r.frameIndex) >= MAX_FRAMES_IN_FLIGHT

\* Variant of deferDeleteSampler that destroys the sampler on the spot.
deferDeleteSampler_DestroyNow(q, sampler) == q

\* deferDeleteSampler: a null handle is ignored, any other is tagged with the
\* frame counter and queued (age counts the frames completed since).
deferDeleteSampler(q, sampler) ==
    IF sampler = NULL THEN q
    ELSE Append(q, [type |-> "Sampler", handle |-> sampler,
                    frameIndex |-> m_currentFrame, age |-> 0])

\* createPipelineForShader: the rasterizer's cull mode follows the culling flag.
CullModeOf(enabled) ==
    IF enabled THEN "VK_CULL_MODE_BACK_BIT" ELSE "VK_CULL_MODE_NONE"

\* The cull modes of the pipelines p, all built under the culling flag enabled.
CullModes(p, enabled) ==
    [s \in Shaders |-> IF p[s] = "built" THEN CullModeOf(enabled) ELSE VK_NULL_HANDLE]

\* Variant of destroyAllPipelines that drops the shaders from the registry.
destroyAllPipelines_Erase(p) == [s \in Shaders |-> "none"]

\* ShaderManager::destroyAllPipelines
destroyAllPipelines(p) == [s \in Shaders |-> IF p[s] = "built" THEN "null" ELSE p[s]]

\* createAllPipelines: every loaded shader is built again; ok[s] is the
\* outcome of vkCreateGraphicsPipelines for s.
createAllPipelines(p, ok) ==
    [s \in Shaders |-> IF p[s] = "none" THEN "none"
                       ELSE IF ok[s] THEN "built" ELSE "null"]

\* processDeferredDeletions at counter cur over queue q: the records kept.
processDeferredDeletions(q, cur) == SelectSeq(q, LAMBDA r : ~Due(cur, r))

\* Variant of FinishFrame that keeps the counter after a swapchain recreation.
FinishFrame_KeepAfterRecreate ==
    LET cur2 == IF pc = "recreate" THEN m_currentFrame
                ELSE (m_currentFrame + 1) % MAX_FRAMES_IN_FLIGHT
        aged == [i \in 1 .. Len(m_deferredDeletions) |->
                    [m_deferredDeletions[i] EXCEPT !.age = @ + 1]]
    IN /\ m_currentFrame' = cur2
       /\ m_deferredDeletions' = processDeferredDeletions(aged, cur2)
       /\ m_frameBegun' = FALSE
       /\ framesCompleted' = IF framesCompleted < MaxFrames THEN framesCompleted + 1
                            ELSE framesCompleted
       /\ presentResult' = "none"
       /\ pc' = "idle"

\* The tail of endFrame: advance the counter, sweep, clear m_frameBegun.
FinishFrame ==
    LET cur2 == (m_currentFrame + 1) % MAX_FRAMES_IN_FLIGHT
        aged == [i \in 1 .. Len(m_deferredDeletions) |->
                    [m_deferredDeletions[i] EXCEPT !.age = @ + 1]]
    IN /\ m_currentFrame' = cur2
       /\ m_deferredDeletions' = processDeferredDeletions(aged, cur2)
       /\ m_frameBegun' = FALSE
       /\ framesCompleted' = IF framesCompleted < MaxFrames THEN framesCompleted + 1
                            ELSE framesCompleted
       /\ presentResult' = "none"
       /\ pc' = "idle"

\* ------------------------------------------------------- memory allocator
DEFAULT_BLOCK_SIZE == 268435456
\* allocateBufferMemory pools a request below this size (16 * 1024 * 1024).
PooledSizeLimit == 16777216
MaxBlocks == 2
MaxSets == 2
MaxTextures == 2
\* Material::findAvailableTextureUnit looks at the units below this number
\* (32 in the code).
MAX_TEXTURE_UNITS == 3
MaxAllocs == 2

MemoryTypes == {0, 1}
\* Request sizes: a few bytes, 15 MiB, one byte below the limit, the limit,
\* and 64 MiB.
RequestSizes == {100, 15728640, 16777215, 16777216, 67108864}
\* VkMemoryRequirements::alignment is a power of two.
Alignments == {1, 256}

\* No request made and no allocation returned.
NoRequest == <<>>
NoAllocation == <<>>

Max(a, b) == IF a >= b THEN a ELSE b

\* (offset + alignment - 1) & ~(alignment - 1), for a power-of-two alignment.
AlignedOffset(offset, alignment) == ((offset + alignment - 1) \div alignment) * alignment

\* The test of findOrCreateBlock's loop on one block.
HasSpace(block, memoryTypeIndex, size, alignment) ==
    /\ block.memoryTypeIndex = memoryTypeIndex
    /\ AlignedOffset(block.used, alignment) + size <= block.size

\* Variant of findOrCreateBlock that returns the last block with space.
findOrCreateBlock_LastFit(blocks, memoryTypeIndex, size, alignment, poolOk) ==
    LET found == {i \in 1 .. Len(blocks) : HasSpace(blocks[i], memoryTypeIndex, size, alignment)}
    IN IF found # {}
       THEN [blocks |-> blocks, block |-> CHOOSE i \in found : \A j \in found : j <= i]
       ELSE IF poolOk
            THEN [blocks |-> Append(blocks, [memoryTypeIndex |-> memoryTypeIndex,
                                             size |-> Max(DEFAULT_BLOCK_SIZE, size * 2),
                                             used |-> 0]),
                  block |-> Len(blocks) + 1]
            ELSE [blocks |-> blocks, block |-> NULL]

\* findOrCreateBlock: the first block of the memory type with enough aligned
\* space, else a new block (poolOk: its vkAllocateMemory succeeds), else null.
\* The result is the block list and the index of the block, NULL for nullptr.
findOrCreateBlock(blocks, memoryTypeIndex, size, alignment, poolOk) ==
    LET found == {i \in 1 .. Len(blocks) : HasSpace(blocks[i], memoryTypeIndex, size, alignment)}
    IN IF found # {}
       THEN [blocks |-> blocks, block |-> CHOOSE i \in found : \A j \in found : i <= j]
       ELSE IF poolOk
            THEN [blocks |-> Append(blocks, [memoryTypeIndex |-> memoryTypeIndex,
                                             size |-> Max(DEFAULT_BLOCK_SIZE, size * 2),
                                             used |-> 0]),
                  block |-> Len(blocks) + 1]
            ELSE [blocks |-> blocks, block |-> NULL]

\* The outcomes of findOrCreateBlock's vkAllocateMemory: it is called when a
\* pooled request finds no block with space (TRUE stands for "not called").
PoolOutcomes(blocks, memoryTypeIndex, size, alignment, typeFound) ==
    IF /\ typeFound
       /\ size < PooledSizeLimit
       /\ \A i \in 1 .. Len(blocks) : ~HasSpace(blocks[i], memoryTypeIndex, size, alignment)
    THEN BOOLEAN
    ELSE {TRUE}

\* The outcomes of the dedicated vkAllocateMemory: it is called for a request
\* at or above the limit and when no pool block could be had.
DedicatedOutcomes(blocks, memoryTypeIndex, size, alignment, typeFound, poolOk) ==
    IF /\ typeFound
       /\ \/ size >= PooledSizeLimit
          \/ /\ ~poolOk
             /\ \A i \in 1 .. Len(blocks) :
                   ~HasSpace(blocks[i], memoryTypeIndex, size, alignment)
    THEN BOOLEAN
    ELSE {TRUE}

\* Variant of PooledAllocation that carves the request at the used counter
\* without aligning it.
PooledAllocation_Unaligned(found, size, alignment) ==
    IF found.block = NULL
    THEN [blocks |-> found.blocks, allocation |-> NoAllocation]
    ELSE LET block == found.blocks[found.block]
         IN IF block.used + size <= block.size
            THEN [blocks |-> [found.blocks EXCEPT ![found.block].used = block.used + size],
                  allocation |-> [result |-> "pooled", offset |-> block.used,
                                  size |-> size, owningBlock |-> found.block]]
            ELSE [blocks |-> found.blocks, allocation |-> NoAllocation]

\* The pooled part of allocateBufferMemory on the block findOrCreateBlock
\* returned: [blocks, allocation], the allocation NoAllocation when the code
\* falls through to the dedicated allocation.
PooledAllocation(found, size, alignment) ==
    IF found.block = NULL
    THEN [blocks |-> found.blocks, allocation |-> NoAllocation]
    ELSE LET block == found.blocks[found.block]
             alignedOffset == AlignedOffset(block.used, alignment)
         IN IF alignedOffset + size <= block.size
            THEN [blocks |-> [found.blocks EXCEPT ![found.block].used = alignedOffset + size],
                  allocation |-> [result |-> "pooled", offset |-> alignedOffset,
                                  size |-> size, owningBlock |-> found.block]]
            ELSE [blocks |-> found.blocks, allocation |-> NoAllocation]

\* Variant of DedicatedAllocation that gives up when it is reached because no
\* pool block could be created.
DedicatedAllocation_PoolOnly(req) ==
    IF req.dedicatedOk /\ req.size >= PooledSizeLimit
    THEN [result |-> "dedicated", offset |-> 0, size |-> req.size, owningBlock |-> NULL]
    ELSE [result |-> "error", offset |-> 0, size |-> 0, owningBlock |-> NULL]

\* The fallback of allocateBufferMemory: a dedicated vkAllocateMemory of the
\* required size, or the throw when it fails.
DedicatedAllocation(req) ==
    IF req.dedicatedOk
    THEN [result |-> "dedicated", offset |-> 0, size |-> req.size, owningBlock |-> NULL]
    ELSE [result |-> "error", offset |-> 0, size |-> 0, owningBlock |-> NULL]

\* The constructor's culling flag and the pipelines and render pass that
\* initialize() leaves behind.
InitPipelineState ==
    /\ m_cullingEnabled = FALSE
    /\ m_cullMode = CullModes(m_pipeline, FALSE)
    /\ m_renderPass = "created"

\* createTransferCommandPool: every slot is free and its fence is created
\* signaled.
createTransferCommandPool ==
    /\ m_transferCommandBuffers =
          [i \in TransferSlots |-> [inUse |-> FALSE, fence |-> "signaled"]]
    /\ transferCmd = NULL
    /\ transferQueue = <<>>
    /\ held = {}

\* createSyncObjects: one semaphore of each kind per swapchain image.
createSyncObjects ==
    /\ numSemaphores = numImages
    /\ m_imageAvailableSemaphores = [i \in 0 .. (numImages - 1) |-> "unsignaled"]
    /\ m_renderFinishedSemaphores = [i \in 0 .. (numImages - 1) |-> "unsignaled"]

\* createDescriptorSetLayout, createPipelineLayout and createDescriptorPool,
\* as initialize() calls them.
InitShared ==
    /\ m_descriptorSetLayout = "created"
    /\ m_pipelineLayout = "created"
    /\ m_descriptorPool = "created"

\* The ShaderProgram constructor's m_isValid and the shader manager that the
\* plugin attaches to the renderer.
InitEntries ==
    /\ m_isValid = [s \in Shaders |-> TRUE]
    /\ m_shaderManager = TRUE
    /\ shaderName = NULL

\* The ShaderProgram constructor's m_hasPendingUpdates; nothing recorded and
\* no uniform set so far.
InitPush ==
    /\ m_hasPendingUpdates = [s \in Shaders |-> FALSE]
    /\ pushCount = 0
    /\ uniformCall = <<>>

\* The memory allocator as its constructor leaves it.
InitAllocator ==
    /\ m_memoryBlocks = <<>>
    /\ request = NoRequest
    /\ allocation = NoAllocation
    /\ allocCalls = 0
    /\ allocations = <<>>

\* createDescriptorPool: no set has been allocated from the new pool.
createDescriptorPool == allocatedSets = 0

\* The textures whose descriptor sets are counted, none of them constructed
\* yet, and the members of a new Texture.
Textures == 1..MaxTextures
NewTexture == [m_descriptorSet |-> NULL, m_minFilter |-> "Linear"]
InitTextures == textures = <<>>

\* No call on the material yet.
NoUnit == MAX_TEXTURE_UNITS
NoCall == <<>>

\* No material has been constructed.
InitMaterial ==
    /\ materialType = "none"
    /\ m_shader = NULL
    /\ m_textureBindings = <<>>
    /\ m_samplerNameToIndex = <<>>
    /\ m_properties = <<>>
    /\ materialCall = NoCall
    /\ shaderCalls = <<>>

\* The renderer's constructor leaves m_boundVertexArray null; the texture and
\* the vertex array of the application are alive.
InitObjects ==
    /\ m_boundVertexArray = FALSE
    /\ destroyed = {}

InitLater ==
    InitAllocator /\ createDescriptorPool /\ InitTextures /\ InitMaterial /\ InitObjects

InitResources == InitShared /\ InitEntries /\ InitPush /\ InitLater

InitExt ==
    InitPipelineState /\ createTransferCommandPool /\ createSyncObjects /\ InitResources

Init ==
    /\ pc = "idle"
    /\ retTo = "none"
    /\ m_currentFrame = 0
    /\ m_imageIndex = 0
    /\ m_frameBegun = FALSE
    /\ m_framebufferResized = FALSE
    /\ m_inFlightFences = [k \in Slots |-> "signaled"]
    /\ numImages = InitialImageCount
    /\ m_imagesInFlight = [i \in 0 .. (numImages - 1) |-> NULL]
    /\ gpuQueue = <<>>
    /\ m_deferredDeletions = <<>>
    /\ m_pipeline = [s \in Shaders |-> "none"]
    /\ m_currentShader = NULL
    /\ m_sampler = NULL
    /\ m_descriptorSet = NULL
    /\ m_currentTexture = FALSE
    /\ recorded = NULL
    /\ minimized = FALSE
    /\ presentResult = "none"
    /\ framesCompleted = 0
    /\ InitExt

\* ------------------------------------------------------------- draw calls
\* drawArrays up to its call of beginFrame (or straight to the draw and
\* endFrame when a frame is already begun).
drawArrays ==
    /\ pc = "idle"
    /\ pc' = IF ~m_frameBegun THEN "beginFrame" ELSE "endFrame"
    /\ UNCHANGED <<retTo, m_imageIndex, m_framebufferResized, gpuQueue, recorded, minimized,
                   presentResult, frameVars, syncVars, shaderVars, textureVars>>
    /\ UNCHANGED extVars

\* drawElements: the same protocol as drawArrays.
drawElements ==
    /\ pc = "idle"
    /\ pc' = IF ~m_frameBegun THEN "beginFrame" ELSE "endFrame"
    /\ UNCHANGED <<retTo, m_imageIndex, m_framebufferResized, gpuQueue, recorded, minimized,
                   presentResult, frameVars, syncVars, shaderVars, textureVars>>
    /\ UNCHANGED extVars

\* beginFrame up to its first return: without a valid pipeline it returns, and
\* the draw call returns after it because no frame was begun.
beginFrame ==
    /\ pc = "beginFrame"
    /\ pc' = IF ~PipelineReady THEN "idle" ELSE "waitFence"
    /\ UNCHANGED <<retTo, m_imageIndex, m_framebufferResized, gpuQueue, recorded, minimized,
                   presentResult, frameVars, syncVars, shaderVars, textureVars>>
    /\ UNCHANGED extVars

\* Variant of beginFrame_WaitFence that does not wait for the fence.
beginFrame_NoFenceWait ==
    /\ pc = "waitFence"
    /\ pc' = "acquire"
    /\ UNCHANGED <<retTo, m_imageIndex, m_framebufferResized, gpuQueue, recorded, minimized,
                   presentResult, frameVars, syncVars, shaderVars, textureVars>>
    /\ UNCHANGED extVars

\* beginFrame: vkWaitForFences on the current slot's fence returns.
beginFrame_WaitFence ==
    /\ pc = "waitFence"
    /\ m_inFlightFences[m_currentFrame] = "signaled"
    /\ pc' = "acquire"
    /\ UNCHANGED <<retTo, m_imageIndex, m_framebufferResized, gpuQueue, recorded, minimized,
                   presentResult, frameVars, syncVars, shaderVars, textureVars>>
    /\ UNCHANGED extVars

\* Variant of beginFrame_Acquire that resets the slot's fence before the
\* result of the acquire is examined.
beginFrame_Acquire_ResetFirst ==
    /\ pc = "acquire"
    /\ m_inFlightFences' = [m_inFlightFences EXCEPT ![m_currentFrame] = "unsignaled"]
    /\ \E result \in VkResults, img \in 0 .. (numImages - 1) :
          IF result = "VK_ERROR_OUT_OF_DATE_KHR"
          THEN /\ pc' = "recreate"
               /\ retTo' = "begin"
               /\ UNCHANGED m_imageIndex
          ELSE IF result \notin {"VK_SUCCESS", "VK_SUBOPTIMAL_KHR"}
          THEN /\ pc' = "thrown"
               /\ UNCHANGED <<retTo, m_imageIndex>>
          ELSE /\ m_imageIndex' = img
               /\ pc' = "waitImage"
               /\ UNCHANGED retTo
    /\ UNCHANGED <<m_framebufferResized, gpuQueue, recorded, minimized, presentResult,
                   frameVars, m_imagesInFlight, numImages, shaderVars, textureVars>>
    /\ m_imageAvailableSemaphores' =
          IF pc' = "waitImage"
          THEN SetSemaphore(m_imageAvailableSemaphores, AcquireSemaphore, "signaled")
          ELSE m_imageAvailableSemaphores
    /\ UNCHANGED <<pipelineVars, transferVars, numSemaphores, m_renderFinishedSemaphores, resourceVars>>

\* beginFrame: vkAcquireNextImageKHR and the handling of its result.
beginFrame_Acquire ==
    /\ pc = "acquire"
    /\ \E result \in VkResults, img \in 0 .. (numImages - 1) :
          IF result = "VK_ERROR_OUT_OF_DATE_KHR"
          THEN /\ pc' = "recreate"
               /\ retTo' = "begin"
               /\ UNCHANGED m_imageIndex
          ELSE IF result \notin {"VK_SUCCESS", "VK_SUBOPTIMAL_KHR"}
          THEN /\ pc' = "thrown"
               /\ UNCHANGED <<retTo, m_imageIndex>>
          ELSE /\ m_imageIndex' = img
               /\ pc' = "waitImage"
               /\ UNCHANGED retTo
    /\ UNCHANGED <<m_framebufferResized, gpuQueue, recorded, minimized,
                   presentResult, frameVars, syncVars, shaderVars, textureVars>>
    /\ m_imageAvailableSemaphores' =
          IF pc' = "waitImage"
          THEN SetSemaphore(m_imageAvailableSemaphores, AcquireSemaphore, "signaled")
          ELSE m_imageAvailableSemaphores
    /\ UNCHANGED <<pipelineVars, transferVars, numSemaphores, m_renderFinishedSemaphores, resourceVars>>

\* Variant of beginFrame_WaitImage that skips the wait on the image's fence.
beginFrame_NoImageWait ==
    /\ pc = "waitImage"
    /\ pc' = "record"
    /\ UNCHANGED <<retTo, m_imageIndex, m_framebufferResized, gpuQueue, recorded, minimized,
                   presentResult, frameVars, syncVars, shaderVars, textureVars>>
    /\ UNCHANGED extVars

\* beginFrame: the wait on the acquired image's previous consumer fence.
beginFrame_WaitImage ==
    /\ pc = "waitImage"
    /\ m_imagesInFlight[m_imageIndex] # NULL
          => m_inFlightFences[SlotOfFence(m_imagesInFlight[m_imageIndex])] = "signaled"
    /\ pc' = "record"
    /\ UNCHANGED <<retTo, m_imageIndex, m_framebufferResized, gpuQueue, recorded, minimized,
                   presentResult, frameVars, syncVars, shaderVars, textureVars>>
    /\ UNCHANGED extVars

\* Variant of PushConstants that leaves the pending flag set.
PushConstants_KeepPending ==
    /\ pushCount' = IF m_currentShader # NULL /\ m_hasPendingUpdates[m_currentShader]
                    THEN 1 ELSE 0
    /\ UNCHANGED m_hasPendingUpdates

\* beginFrame: the push constants of the selected program (its whole
\* PushConstantData of three matrices in one vkCmdPushConstants) when it has
\* pending updates, and clearPendingUpdates().
PushConstants ==
    IF m_currentShader # NULL /\ m_hasPendingUpdates[m_currentShader]
    THEN /\ pushCount' = 1
         /\ m_hasPendingUpdates' = [m_hasPendingUpdates EXCEPT ![m_currentShader] = FALSE]
    ELSE /\ pushCount' = 0
         /\ UNCHANGED m_hasPendingUpdates

\* beginFrame: claim the image, reset the fence, reset and record the
\* command buffer; beginOk is the result of vkBeginCommandBuffer.
beginFrame_Record ==
    /\ pc = "record"
    /\ m_imagesInFlight' = [m_imagesInFlight EXCEPT ![m_imageIndex] = FenceOf(m_currentFrame)]
    /\ m_inFlightFences' = [m_inFlightFences EXCEPT ![m_currentFrame] = "unsignaled"]
    /\ \E beginOk \in BOOLEAN :
          IF beginOk
          THEN /\ recorded' = IF m_currentTexture /\ m_descriptorSet # NULL
                              THEN m_descriptorSet ELSE NULL
               /\ PushConstants
               /\ m_frameBegun' = TRUE
               /\ pc' = "endFrame"
          ELSE /\ pc' = "thrown"
               /\ pushCount' = 0
               /\ UNCHANGED <<recorded, m_frameBegun, m_hasPendingUpdates>>
    /\ UNCHANGED <<retTo, m_imageIndex, m_framebufferResized, gpuQueue, minimized,
                   presentResult, m_currentFrame, m_deferredDeletions,
                   framesCompleted, numImages, shaderVars, textureVars>>
    /\ UNCHANGED <<pipelineVars, transferVars, semaphoreVars, sharedVars, entryVars,
                   uniformCall, laterVars>>

\* Variant of endFrame that recreates the swapchain only on out-of-date or
\* a flagged resize and treats a suboptimal present as a failure.
endFrame_SuboptimalThrows ==
    /\ pc = "endFrame"
    /\ IF ~m_frameBegun
       THEN /\ pc' = "idle"
            /\ UNCHANGED <<retTo, m_framebufferResized, gpuQueue, recorded, presentResult,
                           frameVars>>
       ELSE \E cmdOk \in BOOLEAN, result \in VkResults,
               fault \in RenderFinishedFaults(m_imageIndex) :
          IF ~cmdOk \/ fault
          THEN /\ pc' = IF cmdOk THEN "crashed" ELSE "thrown"
               /\ UNCHANGED <<retTo, m_framebufferResized, gpuQueue, recorded, presentResult,
                              frameVars>>
          ELSE LET gq == Append(gpuQueue, [slot |-> m_currentFrame, image |-> m_imageIndex,
                                           sampler |-> recorded,
                                           wait |-> AcquireSemaphore,
                                           signal |-> m_imageIndex,
                                           presentWait |-> m_imageIndex])
               IN /\ gpuQueue' = gq
                  /\ recorded' = NULL
                  /\ IF \/ result = "VK_ERROR_OUT_OF_DATE_KHR"
                        \/ m_framebufferResized
                     THEN /\ m_framebufferResized' = FALSE
                          /\ presentResult' = result
                          /\ pc' = "recreate"
                          /\ retTo' = "end"
                          /\ UNCHANGED frameVars
                     ELSE IF result # "VK_SUCCESS"
                     THEN /\ pc' = "thrown"
                          /\ presentResult' = result
                          /\ UNCHANGED <<retTo, m_framebufferResized, frameVars>>
                     ELSE /\ FinishFrame
                          /\ UNCHANGED <<retTo, m_framebufferResized>>
    /\ UNCHANGED <<m_imageIndex, minimized, syncVars, shaderVars, textureVars>>
    /\ m_renderFinishedSemaphores' =
          IF Len(gpuQueue') > Len(gpuQueue)
          THEN SetSemaphore(m_renderFinishedSemaphores,
                            gpuQueue'[Len(gpuQueue')].signal, "signaled")
          ELSE m_renderFinishedSemaphores
    /\ UNCHANGED <<pipelineVars, transferVars, numSemaphores, m_imageAvailableSemaphores, resourceVars>>

\* endFrame: end and submit the command buffer, present, then either
\* recreate the swapchain, throw, or advance the counter and sweep.
\* cmdOk is the result of vkEndCommandBuffer and vkQueueSubmit.
endFrame ==
    /\ pc = "endFrame"
    /\ IF ~m_frameBegun
       THEN /\ pc' = "idle"
            /\ UNCHANGED <<retTo, m_framebufferResized, gpuQueue, recorded, presentResult,
                           frameVars>>
       ELSE \E cmdOk \in BOOLEAN, result \in VkResults,
               fault \in RenderFinishedFaults(m_imageIndex) :
          IF ~cmdOk \/ fault
          THEN /\ pc' = IF cmdOk THEN "crashed" ELSE "thrown"
               /\ UNCHANGED <<retTo, m_framebufferResized, gpuQueue, recorded, presentResult,
                              frameVars>>
          ELSE LET gq == Append(gpuQueue, [slot |-> m_currentFrame, image |-> m_imageIndex,
                                           sampler |-> recorded,
                                           wait |-> AcquireSemaphore,
                                           signal |-> m_imageIndex,
                                           presentWait |-> m_imageIndex])
               IN /\ gpuQueue' = gq
                  /\ recorded' = NULL
                  /\ IF \/ result = "VK_ERROR_OUT_OF_DATE_KHR"
                        \/ result = "VK_SUBOPTIMAL_KHR"
                        \/ m_framebufferResized
                     THEN /\ m_framebufferResized' = FALSE
                          /\ presentResult' = result
                          /\ pc' = "recreate"
                          /\ retTo' = "end"
                          /\ UNCHANGED frameVars
                     ELSE IF result # "VK_SUCCESS"
                     THEN /\ pc' = "thrown"
                          /\ presentResult' = result
                          /\ UNCHANGED <<retTo, m_framebufferResized, frameVars>>
                     ELSE /\ FinishFrame
                          /\ UNCHANGED <<retTo, m_framebufferResized>>
    /\ UNCHANGED <<m_imageIndex, minimized, syncVars, shaderVars, textureVars>>
    /\ m_renderFinishedSemaphores' =
          IF Len(gpuQueue') > Len(gpuQueue)
          THEN SetSemaphore(m_renderFinishedSemaphores,
                            gpuQueue'[Len(gpuQueue')].signal, "signaled")
          ELSE m_renderFinishedSemaphores
    /\ UNCHANGED <<pipelineVars, transferVars, numSemaphores, m_imageAvailableSemaphores, resourceVars>>

\* recreateSwapChain: the loop that waits for a nonzero extent; glfwWaitEvents
\* delivers the resize event, whose callback is Application::onFramebufferResize.
recreateSwapChain_WaitEvents ==
    /\ pc = "recreate"
    /\ minimized
    /\ minimized' = FALSE
    /\ m_framebufferResized' = TRUE
    /\ UNCHANGED <<pc, retTo, m_imageIndex, gpuQueue, recorded,
                   presentResult, frameVars, syncVars, shaderVars, textureVars>>
    /\ UNCHANGED extVars

\* recreateSwapChain after vkDeviceWaitIdle has returned, followed by the rest
\* of its caller: beginFrame returns, endFrame advances and sweeps.
\* createOk is the outcome of the create* calls (they throw on failure).
recreateSwapChain ==
    /\ pc = "recreate"
    /\ ~minimized
    /\ gpuQueue = <<>>
    /\ \E createOk \in BOOLEAN, count \in ImageCounts, ok \in [Shaders -> BOOLEAN] :
          IF ~createOk
          THEN /\ m_pipeline' = destroyAllPipelines(m_pipeline)
               /\ m_cullMode' = [s \in Shaders |-> VK_NULL_HANDLE]
               /\ m_renderPass' \in {VK_NULL_HANDLE, "created"}
               /\ pc' = "thrown"
               /\ UNCHANGED <<retTo, m_imagesInFlight, numImages, presentResult, frameVars>>
          ELSE /\ numImages' = count
               /\ m_imagesInFlight' = [i \in 0 .. (count - 1) |-> NULL]
               /\ m_pipeline' = createAllPipelines(destroyAllPipelines(m_pipeline), ok)
               /\ m_cullMode' = CullModes(m_pipeline', m_cullingEnabled)
               /\ UNCHANGED m_renderPass
               /\ retTo' = "none"
               /\ IF retTo = "end"
                  THEN FinishFrame
                  ELSE /\ pc' = "idle"
                       /\ UNCHANGED <<presentResult, frameVars>>
    /\ UNCHANGED <<m_imageIndex, m_framebufferResized, m_inFlightFences, gpuQueue, recorded,
                   minimized, m_currentShader, textureVars, m_cullingEnabled>>
    /\ UNCHANGED nonPipelineExtVars

\* ------------------------------------------- swapchain recreation, by step
\* recreateSwapChain: vkDeviceWaitIdle returns once the queue has drained.
recreateSwapChain_DeviceWaitIdle ==
    /\ pc = "recreate"
    /\ ~minimized
    /\ gpuQueue = <<>>
    /\ pc' = "destroyPipelines"
    /\ UNCHANGED <<retTo, m_imageIndex, m_framebufferResized, gpuQueue, recorded, minimized,
                   presentResult, frameVars, syncVars, shaderVars, textureVars, extVars>>

\* Variant of recreateSwapChain_DestroyPipelines that keeps the pipelines.
recreateSwapChain_KeepPipelines ==
    /\ pc = "destroyPipelines"
    /\ pc' = "cleanupSwapChain"
    /\ UNCHANGED <<retTo, m_imageIndex, m_framebufferResized, gpuQueue, recorded, minimized,
                   presentResult, frameVars, syncVars, shaderVars, textureVars, extVars>>

\* recreateSwapChain: m_shaderManager->destroyAllPipelines().
recreateSwapChain_DestroyPipelines ==
    /\ pc = "destroyPipelines"
    /\ m_pipeline' = destroyAllPipelines(m_pipeline)
    /\ m_cullMode' = CullModes(m_pipeline', m_cullingEnabled)
    /\ pc' = "cleanupSwapChain"
    /\ UNCHANGED <<retTo, m_imageIndex, m_framebufferResized, gpuQueue, recorded, minimized,
                   presentResult, frameVars, syncVars, m_currentShader, textureVars,
                   m_cullingEnabled, m_renderPass>>
    /\ UNCHANGED nonPipelineExtVars

\* cleanupSwapChain: framebuffers, image views, swapchain, then the render pass.
cleanupSwapChain ==
    /\ pc = "cleanupSwapChain"
    /\ m_renderPass' = VK_NULL_HANDLE
    /\ pc' = "createSwapChain"
    /\ UNCHANGED <<retTo, m_imageIndex, m_framebufferResized, gpuQueue, recorded, minimized,
                   presentResult, frameVars, syncVars, shaderVars, textureVars,
                   m_cullingEnabled, m_cullMode>>
    /\ UNCHANGED nonPipelineExtVars

\* createSwapChain, createImageViews, createRenderPass, createFramebuffers:
\* each throws on failure (passMade: the render pass was created before the
\* throw); on success the swapchain has count images.
recreateSwapChain_Create ==
    /\ pc = "createSwapChain"
    /\ \E createOk \in BOOLEAN, passMade \in BOOLEAN, count \in ImageCounts :
          IF createOk
          THEN /\ numImages' = count
               /\ m_renderPass' = "created"
               /\ pc' = "resetImagesInFlight"
          ELSE /\ m_renderPass' = IF passMade THEN "created" ELSE VK_NULL_HANDLE
               /\ pc' = "thrown"
               /\ UNCHANGED numImages
    /\ UNCHANGED <<retTo, m_imageIndex, m_framebufferResized, gpuQueue, recorded, minimized,
                   presentResult, frameVars, m_inFlightFences, m_imagesInFlight, shaderVars,
                   textureVars, m_cullingEnabled, m_cullMode>>
    /\ UNCHANGED nonPipelineExtVars

\* recreateSwapChain: m_imagesInFlight.clear(), then resize(size, null).
recreateSwapChain_ResetImagesInFlight ==
    /\ pc = "resetImagesInFlight"
    /\ m_imagesInFlight' = [i \in 0 .. (numImages - 1) |-> NULL]
    /\ pc' = "createPipelines"
    /\ UNCHANGED <<retTo, m_imageIndex, m_framebufferResized, gpuQueue, recorded, minimized,
                   presentResult, frameVars, m_inFlightFences, numImages, shaderVars,
                   textureVars, extVars>>

\* recreateSwapChain: m_shaderManager->createAllPipelines(), then the rest of
\* the caller: beginFrame returns, endFrame advances and sweeps.
recreateSwapChain_CreatePipelines ==
    /\ pc = "createPipelines"
    /\ \E ok \in [Shaders -> BOOLEAN] :
          m_pipeline' = createAllPipelines(m_pipeline, ok)
    /\ m_cullMode' = CullModes(m_pipeline', m_cullingEnabled)
    /\ retTo' = "none"
    /\ IF retTo = "end"
       THEN FinishFrame
       ELSE /\ pc' = "idle"
            /\ UNCHANGED <<presentResult, frameVars>>
    /\ UNCHANGED <<m_imageIndex, m_framebufferResized, gpuQueue, recorded, minimized,
                   syncVars, m_currentShader, textureVars, m_cullingEnabled, m_renderPass>>
    /\ UNCHANGED nonPipelineExtVars

\* ------------------------------------------------------------ face culling
\* enableCulling up to vkDeviceWaitIdle; a call that does not change the flag
\* returns at once.
enableCulling(enable) ==
    /\ pc = "idle"
    /\ IF m_cullingEnabled = enable
       THEN UNCHANGED <<pc, m_cullingEnabled>>
       ELSE /\ m_cullingEnabled' = enable
            /\ pc' = "enableCulling"
    /\ UNCHANGED <<retTo, m_imageIndex, m_framebufferResized, gpuQueue, recorded, minimized,
                   presentResult, frameVars, syncVars, shaderVars, textureVars,
                   m_cullMode, m_renderPass>>
    /\ UNCHANGED nonPipelineExtVars

\* Variant of enableCulling_Rebuild that leaves the pipelines as they are.
enableCulling_NoRebuild ==
    /\ pc = "enableCulling"
    /\ gpuQueue = <<>>
    /\ pc' = "idle"
    /\ UNCHANGED <<retTo, m_imageIndex, m_framebufferResized, gpuQueue, recorded, minimized,
                   presentResult, frameVars, syncVars, shaderVars, textureVars, extVars>>

\* enableCulling after vkDeviceWaitIdle has returned: destroyAllPipelines,
\* then createAllPipelines under the new flag.
enableCulling_Rebuild ==
    /\ pc = "enableCulling"
    /\ gpuQueue = <<>>
    /\ \E ok \in [Shaders -> BOOLEAN] :
          m_pipeline' = createAllPipelines(destroyAllPipelines(m_pipeline), ok)
    /\ m_cullMode' = CullModes(m_pipeline', m_cullingEnabled)
    /\ pc' = "idle"
    /\ UNCHANGED <<retTo, m_imageIndex, m_framebufferResized, gpuQueue, recorded, minimized,
                   presentResult, frameVars, syncVars, m_currentShader, textureVars,
                   m_cullingEnabled, m_renderPass>>
    /\ UNCHANGED nonPipelineExtVars

\* setViewport, reached from the framebuffer-size callback when the main loop
\* polls events; the new extent may be zero (minimized).
setViewport ==
    /\ pc = "idle"
    /\ \E zero \in BOOLEAN : minimized' = zero
    /\ m_framebufferResized' = TRUE
    /\ UNCHANGED <<pc, retTo, m_imageIndex, gpuQueue, recorded,
                   presentResult, frameVars, syncVars, shaderVars, textureVars>>
    /\ UNCHANGED extVars

\* ---------------------------------------------------------------- the GPU
\* The graphics queue completes its oldest submission and signals its fence;
\* by then the submission's semaphore wait and the wait of its present have
\* been executed.
GpuComplete ==
    /\ gpuQueue # <<>>
    /\ m_inFlightFences' = [m_inFlightFences EXCEPT ![Head(gpuQueue).slot] = "signaled"]
    /\ gpuQueue' = Tail(gpuQueue)
    /\ m_imageAvailableSemaphores' =
          SetSemaphore(m_imageAvailableSemaphores, Head(gpuQueue).wait, "unsignaled")
    /\ m_renderFinishedSemaphores' =
          SetSemaphore(m_renderFinishedSemaphores, Head(gpuQueue).presentWait, "unsignaled")
    /\ UNCHANGED <<pc, retTo, m_imageIndex, m_framebufferResized, recorded, minimized,
                   presentResult, frameVars, m_imagesInFlight, numImages, shaderVars,
                   textureVars>>
    /\ UNCHANGED <<pipelineVars, transferVars, numSemaphores, resourceVars>>

\* ---------------------------------------------------------------- shaders
\* onShaderLoaded for a loaded shader: createPipeline stores the new pipeline,
\* null when vkCreateGraphicsPipelines fails.
onShaderLoaded(s) ==
    /\ pc = "idle"
    /\ \E ok \in BOOLEAN :
          /\ m_pipeline' = [m_pipeline EXCEPT ![s] = IF ok THEN "built" ELSE "null"]
          /\ m_cullMode' = [m_cullMode EXCEPT
                               ![s] = IF ok THEN CullModeOf(m_cullingEnabled) ELSE VK_NULL_HANDLE]
    /\ UNCHANGED <<pc, retTo, m_imageIndex, m_framebufferResized, gpuQueue, recorded,
                   minimized, presentResult, frameVars, syncVars, m_currentShader,
                   textureVars, m_cullingEnabled, m_renderPass>>
    /\ UNCHANGED nonPipelineExtVars

\* ShaderProgram::bind of a loaded shader
ShaderProgram_bind(s) ==
    /\ pc = "idle"
    /\ m_pipeline[s] # "none"
    /\ m_currentShader' = s
    /\ UNCHANGED <<pc, retTo, m_imageIndex, m_framebufferResized, gpuQueue, recorded,
                   minimized, presentResult, frameVars, syncVars, m_pipeline, textureVars>>
    /\ UNCHANGED extVars

\* ShaderProgram::unbind
ShaderProgram_unbind ==
    /\ pc = "idle"
    /\ m_currentShader # NULL
    /\ m_currentShader' = NULL
    /\ UNCHANGED <<pc, retTo, m_imageIndex, m_framebufferResized, gpuQueue, recorded,
                   minimized, presentResult, frameVars, syncVars, m_pipeline, textureVars>>
    /\ UNCHANGED extVars

\* --------------------------------------------------------------- textures
\* Texture::bind
Texture_bind ==
    /\ pc = "idle"
    /\ m_currentTexture' = TRUE
    /\ UNCHANGED <<pc, retTo, m_imageIndex, m_framebufferResized, gpuQueue, recorded,
                   minimized, presentResult, frameVars, syncVars, shaderVars,
                   m_sampler, m_descriptorSet>>
    /\ UNCHANGED extVars

\* Texture::setData with non-null data: it starts with cleanup(), which
\* blocks in vkDeviceWaitIdle.
Texture_setData ==
    /\ pc = "idle"
    /\ pc' = "setData"
    /\ UNCHANGED <<retTo, m_imageIndex, m_framebufferResized, gpuQueue, recorded, minimized,
                   presentResult, frameVars, syncVars, shaderVars, textureVars>>
    /\ UNCHANGED extVars

\* Texture::setData once the device is idle: cleanup() destroys the old
\* sampler on the spot, the upload is synchronous, then a new sampler and a
\* descriptor set referencing it are created; either creation may throw.
Texture_setData_Upload ==
    /\ pc = "setData"
    /\ gpuQueue = <<>>
    /\ \E samplerOk \in BOOLEAN, setOk \in BOOLEAN :
          LET h == FreshHandle(QueuedHandles(m_deferredDeletions))
          IN IF ~samplerOk
             THEN /\ m_sampler' = NULL
                  /\ m_descriptorSet' = NULL
                  /\ pc' = "thrown"
             ELSE IF ~setOk
             THEN /\ m_sampler' = h
                  /\ m_descriptorSet' = NULL
                  /\ pc' = "thrown"
             ELSE /\ m_sampler' = h
                  /\ m_descriptorSet' = h
                  /\ pc' = "idle"
    /\ UNCHANGED <<retTo, m_imageIndex, m_framebufferResized, gpuQueue, recorded, minimized,
                   presentResult, frameVars, syncVars, shaderVars, m_currentTexture>>
    /\ UNCHANGED extVars

\* The body shared by Texture::setFilter and Texture::setWrap: queue the old
\* sampler for deferred deletion, create the new one (createSampler throws on
\* failure) and point the descriptor set, if any, at it.
\* cap bounds the length of the deferred-deletion queue.
ReplaceSamplerWithin(cap) ==
    /\ pc = "idle"
    /\ m_sampler # NULL => Len(m_deferredDeletions) < cap
    /\ m_deferredDeletions' = deferDeleteSampler(m_deferredDeletions, m_sampler)
    /\ \E samplerOk \in BOOLEAN :
          IF samplerOk
          THEN LET h == FreshHandle(QueuedHandles(m_deferredDeletions) \cup {m_sampler})
               IN /\ m_sampler' = h
                  /\ m_descriptorSet' = IF m_descriptorSet # NULL THEN h ELSE NULL
                  /\ pc' = "idle"
          ELSE /\ m_sampler' = NULL
               /\ pc' = "thrown"
               /\ UNCHANGED m_descriptorSet
    /\ UNCHANGED <<retTo, m_imageIndex, m_framebufferResized, gpuQueue, recorded, minimized,
                   presentResult, m_currentFrame, m_frameBegun, framesCompleted,
                   syncVars, shaderVars, m_currentTexture>>
    /\ UNCHANGED extVars

ReplaceSampler == ReplaceSamplerWithin(MaxQueue)

\* Texture::setFilter
Texture_setFilter == ReplaceSampler

\* Texture::setWrap
Texture_setWrap == ReplaceSampler

\* ------------------------------------------------ transfer command buffers
\* What the transfer pool's operations leave alone.
nonTransferVars == <<retTo, m_imageIndex, m_framebufferResized, gpuQueue, recorded, minimized,
                     presentResult, frameVars, syncVars, shaderVars, textureVars,
                     pipelineVars, semaphoreVars, resourceVars>>

\* acquireTransferCommandBuffer: the first slot that is not in use, else the
\* first slot of the pool.
FirstSlot(pool) ==
    LET free == {i \in TransferSlots : ~pool[i].inUse}
    IN IF free # {} THEN CHOOSE i \in free : \A j \in free : i <= j
       ELSE CHOOSE i \in TransferSlots : \A j \in TransferSlots : i <= j

\* beginSingleTimeCommands up to the vkWaitForFences of
\* acquireTransferCommandBuffer on the slot it selected.
beginSingleTimeCommands ==
    /\ pc = "idle"
    /\ transferCmd' = FirstSlot(m_transferCommandBuffers)
    /\ pc' = "acquireTransfer"
    /\ UNCHANGED <<m_transferCommandBuffers, transferQueue, held, nonTransferVars>>

\* Variant of acquireTransferCommandBuffer that does not wait for the slot's
\* fence.
acquireTransferCommandBuffer_NoWait ==
    /\ pc = "acquireTransfer"
    /\ m_transferCommandBuffers' =
          [m_transferCommandBuffers EXCEPT
              ![transferCmd] = [inUse |-> TRUE, fence |-> "unsignaled"]]
    /\ held' = held \cup {transferCmd}
    /\ transferCmd' = NULL
    /\ pc' = "idle"
    /\ UNCHANGED <<transferQueue, nonTransferVars>>

\* acquireTransferCommandBuffer once the slot's fence is signaled: the fence
\* is reset, the slot marked in use, and beginSingleTimeCommands returns its
\* command buffer, reset and begun.
acquireTransferCommandBuffer ==
    /\ pc = "acquireTransfer"
    /\ m_transferCommandBuffers[transferCmd].fence = "signaled"
    /\ m_transferCommandBuffers' =
          [m_transferCommandBuffers EXCEPT
              ![transferCmd] = [inUse |-> TRUE, fence |-> "unsignaled"]]
    /\ held' = held \cup {transferCmd}
    /\ transferCmd' = NULL
    /\ pc' = "idle"
    /\ UNCHANGED <<transferQueue, nonTransferVars>>

\* endSingleTimeCommands on a command buffer of the pool, up to its
\* vkWaitForFences: the buffer is submitted with the slot's fence; the result
\* of vkQueueSubmit is not looked at (submitOk: the submission was accepted).
endSingleTimeCommands(commandBuffer) ==
    /\ pc = "idle"
    /\ commandBuffer \in held
    /\ transferCmd' = commandBuffer
    /\ \E submitOk \in BOOLEAN :
          transferQueue' = IF submitOk THEN Append(transferQueue, commandBuffer)
                           ELSE transferQueue
    /\ pc' = "endTransfer"
    /\ UNCHANGED <<m_transferCommandBuffers, held, nonTransferVars>>

\* Variant of endSingleTimeCommands_Release that does not wait for the fence.
endSingleTimeCommands_ReleaseEarly ==
    /\ pc = "endTransfer"
    /\ m_transferCommandBuffers' =
          [m_transferCommandBuffers EXCEPT ![transferCmd].inUse = FALSE]
    /\ held' = held \ {transferCmd}
    /\ transferCmd' = NULL
    /\ pc' = "idle"
    /\ UNCHANGED <<transferQueue, nonTransferVars>>

\* endSingleTimeCommands once vkWaitForFences has returned:
\* releaseTransferCommandBuffer clears inUse and the call returns.
endSingleTimeCommands_Release ==
    /\ pc = "endTransfer"
    /\ m_transferCommandBuffers[transferCmd].fence = "signaled"
    /\ m_transferCommandBuffers' =
          [m_transferCommandBuffers EXCEPT ![transferCmd].inUse = FALSE]
    /\ held' = held \ {transferCmd}
    /\ transferCmd' = NULL
    /\ pc' = "idle"
    /\ UNCHANGED <<transferQueue, nonTransferVars>>

\* The graphics queue completes its oldest transfer submission and signals
\* the slot's fence.
GpuCompleteTransfer ==
    /\ transferQueue # <<>>
    /\ m_transferCommandBuffers' =
          [m_transferCommandBuffers EXCEPT ![Head(transferQueue)].fence = "signaled"]
    /\ transferQueue' = Tail(transferQueue)
    /\ UNCHANGED <<pc, transferCmd, held, nonTransferVars>>

\* ------------------------------------------------- texture upload commands
\* The image layouts Texture passes around.
ImageLayouts == {"VK_IMAGE_LAYOUT_UNDEFINED", "VK_IMAGE_LAYOUT_TRANSFER_DST_OPTIMAL",
                 "VK_IMAGE_LAYOUT_SHADER_READ_ONLY_OPTIMAL"}

\* Variant of SupportedTransition that accepts every pair of layouts.
SupportedTransition_Any(oldLayout, newLayout) == TRUE

\* transitionImageLayout: the two pairs of layouts it has a barrier for.
SupportedTransition(oldLayout, newLayout) ==
    \/ /\ oldLayout = "VK_IMAGE_LAYOUT_UNDEFINED"
       /\ newLayout = "VK_IMAGE_LAYOUT_TRANSFER_DST_OPTIMAL"
    \/ /\ oldLayout = "VK_IMAGE_LAYOUT_TRANSFER_DST_OPTIMAL"
       /\ newLayout = "VK_IMAGE_LAYOUT_SHADER_READ_ONLY_OPTIMAL"

\* Texture::transitionImageLayout of a texture with a renderer, up to the
\* vkWaitForFences of the acquire inside beginSingleTimeCommands.
Texture_transitionImageLayout(oldLayout, newLayout) ==
    /\ pc = "idle"
    /\ transferCmd' = FirstSlot(m_transferCommandBuffers)
    /\ pc' = IF SupportedTransition(oldLayout, newLayout) THEN "uploadAcquire"
             ELSE "unsupportedAcquire"
    /\ UNCHANGED <<m_transferCommandBuffers, transferQueue, held, nonTransferVars>>

\* Texture::copyBufferToImage of a texture with a renderer, up to the
\* vkWaitForFences of the acquire inside beginSingleTimeCommands.
Texture_copyBufferToImage ==
    /\ pc = "idle"
    /\ transferCmd' = FirstSlot(m_transferCommandBuffers)
    /\ pc' = "uploadAcquire"
    /\ UNCHANGED <<m_transferCommandBuffers, transferQueue, held, nonTransferVars>>

\* transitionImageLayout with a supported pair, or copyBufferToImage, once
\* the acquire has returned: the command is recorded and
\* endSingleTimeCommands submits the buffer with the slot's fence and waits.
Texture_upload_Submit ==
    /\ pc = "uploadAcquire"
    /\ m_transferCommandBuffers[transferCmd].fence = "signaled"
    /\ m_transferCommandBuffers' =
          [m_transferCommandBuffers EXCEPT
              ![transferCmd] = [inUse |-> TRUE, fence |-> "unsignaled"]]
    /\ held' = held \cup {transferCmd}
    /\ \E submitOk \in BOOLEAN :
          transferQueue' = IF submitOk THEN Append(transferQueue, transferCmd)
                           ELSE transferQueue
    /\ pc' = "endTransfer"
    /\ UNCHANGED <<transferCmd, nonTransferVars>>

\* transitionImageLayout with an unsupported pair, once the acquire has
\* returned: the error is logged and the function returns; the command
\* buffer it got is a local variable, so no caller holds it afterwards.
Texture_transitionImageLayout_Unsupported ==
    /\ pc = "unsupportedAcquire"
    /\ m_transferCommandBuffers[transferCmd].fence = "signaled"
    /\ m_transferCommandBuffers' =
          [m_transferCommandBuffers EXCEPT
              ![transferCmd] = [inUse |-> TRUE, fence |-> "unsignaled"]]
    /\ transferCmd' = NULL
    /\ pc' = "idle"
    /\ UNCHANGED <<transferQueue, held, nonTransferVars>>

\* Texture::setData: its three upload commands, in order, with the layouts
\* it passes to transitionImageLayout (copyBufferToImage takes none).
SetDataUploads ==
    << <<"VK_IMAGE_LAYOUT_UNDEFINED", "VK_IMAGE_LAYOUT_TRANSFER_DST_OPTIMAL">>,
       <<>>,
       <<"VK_IMAGE_LAYOUT_TRANSFER_DST_OPTIMAL", "VK_IMAGE_LAYOUT_SHADER_READ_ONLY_OPTIMAL">> >>

\* The k-th upload command of setData records and submits its command.
SubmitsUpload(k) ==
    \/ SetDataUploads[k] = <<>>
    \/ SupportedTransition(SetDataUploads[k][1], SetDataUploads[k][2])

\* Positions of setData: waiting in the acquire of its k-th upload command,
\* and waiting in that command's endSingleTimeCommands.
SetDataAcquire == <<"setDataAcquire1", "setDataAcquire2", "setDataAcquire3">>
SetDataEnd == <<"setDataEnd1", "setDataEnd2", "setDataEnd3">>

\* setData after its k-th upload command has returned: the next command up
\* to its acquire, or the rest of setData (image view, sampler, descriptor
\* set), which may throw.
Texture_setData_Continue(k, pool) ==
    IF k < Len(SetDataUploads)
    THEN /\ transferCmd' = FirstSlot(pool)
         /\ pc' = SetDataAcquire[k + 1]
    ELSE /\ transferCmd' = NULL
         /\ pc' \in {"idle", "thrown"}

\* Texture::setData with data, up to the acquire of its first upload
\* command; creating the staging buffer or the image may throw.
Texture_setData_Begin ==
    /\ pc = "idle"
    /\ \E stagingOk \in BOOLEAN :
          IF stagingOk
          THEN /\ transferCmd' = FirstSlot(m_transferCommandBuffers)
               /\ pc' = SetDataAcquire[1]
          ELSE /\ pc' = "thrown"
               /\ UNCHANGED transferCmd
    /\ UNCHANGED <<m_transferCommandBuffers, transferQueue, held, nonTransferVars>>

\* setData: the acquire of the k-th upload command returns; the command is
\* recorded and submitted by endSingleTimeCommands, or, for a pair of
\* layouts without a barrier, transitionImageLayout returns at once and
\* setData goes on.
Texture_setData_Submit(k) ==
    /\ pc = SetDataAcquire[k]
    /\ m_transferCommandBuffers[transferCmd].fence = "signaled"
    /\ m_transferCommandBuffers' =
          [m_transferCommandBuffers EXCEPT
              ![transferCmd] = [inUse |-> TRUE, fence |-> "unsignaled"]]
    /\ IF SubmitsUpload(k)
       THEN /\ held' = held \cup {transferCmd}
            /\ \E submitOk \in BOOLEAN :
                  transferQueue' = IF submitOk THEN Append(transferQueue, transferCmd)
                                   ELSE transferQueue
            /\ pc' = SetDataEnd[k]
            /\ UNCHANGED transferCmd
       ELSE /\ Texture_setData_Continue(k, m_transferCommandBuffers')
            /\ UNCHANGED <<held, transferQueue>>
    /\ UNCHANGED nonTransferVars

\* setData: the vkWaitForFences of the k-th upload command's
\* endSingleTimeCommands returns, the slot is released and setData goes on.
Texture_setData_Release(k) ==
    /\ pc = SetDataEnd[k]
    /\ m_transferCommandBuffers[transferCmd].fence = "signaled"
    /\ m_transferCommandBuffers' =
          [m_transferCommandBuffers EXCEPT ![transferCmd].inUse = FALSE]
    /\ held' = held \ {transferCmd}
    /\ Texture_setData_Continue(k, m_transferCommandBuffers')
    /\ UNCHANGED <<transferQueue, nonTransferVars>>

\* ------------------------------------------------------- pipeline entries
\* What loading a shader and notifying the renderer leave alone.
nonEntryVars == <<retTo, m_imageIndex, m_framebufferResized, gpuQueue, recorded, minimized,
                  presentResult, frameVars, syncVars, m_currentShader, textureVars,
                  m_cullingEnabled, m_renderPass, transferVars, semaphoreVars, sharedVars,
                  pushVars, laterVars>>

\* The shader manager registers a new ShaderProgram: its constructor leaves
\* the pipeline null and the program valid.
loadShader(s) ==
    /\ pc = "idle"
    /\ m_pipeline[s] = "none"
    /\ m_pipeline' = [m_pipeline EXCEPT ![s] = "null"]
    /\ m_isValid' = [m_isValid EXCEPT ![s] = TRUE]
    /\ UNCHANGED <<pc, m_cullMode, m_shaderManager, shaderName, nonEntryVars>>

\* A call of Renderer::onShaderLoaded(name).
Renderer_onShaderLoaded(name) ==
    /\ pc = "idle"
    /\ shaderName' = name
    /\ pc' = "onShaderLoaded"
    /\ UNCHANGED <<m_pipeline, m_cullMode, m_isValid, m_shaderManager, nonEntryVars>>

\* onShaderLoaded returns early: no shader manager, getShader finds no
\* program of that name, or the program is not valid.
Refused(name) == ~m_shaderManager \/ m_pipeline[name] = "none" \/ ~m_isValid[name]

\* Variant of Renderer_onShaderLoaded_Build without the isValid() test.
Renderer_onShaderLoaded_BuildInvalid ==
    /\ pc = "onShaderLoaded"
    /\ IF ~m_shaderManager \/ m_pipeline[shaderName] = "none"
       THEN UNCHANGED <<m_pipeline, m_cullMode, m_isValid>>
       ELSE \E ok \in BOOLEAN :
               /\ m_pipeline' = [m_pipeline EXCEPT ![shaderName] = IF ok THEN "built" ELSE "null"]
               /\ m_cullMode' = CullModes(m_pipeline', m_cullingEnabled)
               /\ m_isValid' = [m_isValid EXCEPT ![shaderName] = ok]
    /\ shaderName' = NULL
    /\ pc' = "idle"
    /\ UNCHANGED <<m_shaderManager, nonEntryVars>>

\* The body of Renderer::onShaderLoaded: the early returns, else
\* ShaderProgram::createPipeline, which stores what createPipelineForShader
\* returns and marks the program invalid when that is null.
Renderer_onShaderLoaded_Build ==
    /\ pc = "onShaderLoaded"
    /\ IF Refused(shaderName)
       THEN UNCHANGED <<m_pipeline, m_cullMode, m_isValid>>
       ELSE \E ok \in BOOLEAN :
               /\ m_pipeline' = [m_pipeline EXCEPT ![shaderName] = IF ok THEN "built" ELSE "null"]
               /\ m_cullMode' = CullModes(m_pipeline', m_cullingEnabled)
               /\ m_isValid' = [m_isValid EXCEPT ![shaderName] = IF ok THEN @ ELSE FALSE]
    /\ shaderName' = NULL
    /\ pc' = "idle"
    /\ UNCHANGED <<m_shaderManager, nonEntryVars>>

\* -------------------------------------------------------- push constants
\* The names setMat4 is called with: the three it knows and another one.
Mat4Names == {"model", "view", "projection", "normalMatrix"}

\* ShaderProgram::setMat4 on a loaded program.
ShaderProgram_setMat4(s, name) ==
    /\ pc = "idle"
    /\ m_pipeline[s] # "none"
    /\ m_hasPendingUpdates' =
          IF name \in {"model", "view", "projection"}
          THEN [m_hasPendingUpdates EXCEPT ![s] = TRUE]
          ELSE m_hasPendingUpdates
    /\ uniformCall' = [shader |-> s, name |-> name,
                        odd |-> IF uniformCall = <<>> THEN TRUE ELSE ~uniformCall.odd]
    /\ UNCHANGED <<pc, retTo, m_imageIndex, m_framebufferResized, gpuQueue, recorded,
                   minimized, presentResult, frameVars, syncVars, shaderVars, textureVars,
                   pipelineVars, transferVars, semaphoreVars, sharedVars, entryVars, pushCount,
                   laterVars>>

\* ------------------------------------------------------- memory allocation
\* What the allocator's calls leave alone.
nonAllocatorVars == <<retTo, m_imageIndex, m_framebufferResized, gpuQueue, recorded, minimized,
                      presentResult, frameVars, syncVars, shaderVars, textureVars,
                      pipelineVars, transferVars, semaphoreVars, sharedVars, entryVars,
                      pushVars, poolVars, materialVars, objectVars>>

\* The Allocation the caller receives, with the alignment it was asked with.
HandedOut(a, alignment) ==
    [offset |-> a.offset, size |-> a.size, alignment |-> alignment,
     owningBlock |-> a.owningBlock]

\* The sequence s without its element i.
RemoveAt(s, i) == [k \in 1 .. (Len(s) - 1) |-> IF k < i THEN s[k] ELSE s[k + 1]]

\* MemoryAllocator::allocateBufferMemory for one request. typeFound is the
\* outcome of findMemoryType (it throws when no memory type suits), poolOk and
\* dedicatedOk those of the two vkAllocateMemory calls.
allocateBufferMemory ==
    /\ pc = "idle"
    /\ allocCalls < MaxAllocs
    /\ allocCalls' = allocCalls + 1
    /\ \E size \in RequestSizes, alignment \in Alignments, memoryTypeIndex \in MemoryTypes,
          typeFound \in BOOLEAN :
       \E poolOk \in PoolOutcomes(m_memoryBlocks, memoryTypeIndex, size, alignment, typeFound) :
       \E dedicatedOk \in DedicatedOutcomes(m_memoryBlocks, memoryTypeIndex, size, alignment,
                                             typeFound, poolOk) :
          /\ request' = [size |-> size, alignment |-> alignment,
                         memoryTypeIndex |-> memoryTypeIndex, typeFound |-> typeFound,
                         poolOk |-> poolOk, dedicatedOk |-> dedicatedOk]
          /\ IF ~typeFound
             THEN /\ allocation' = [result |-> "error", offset |-> 0, size |-> 0,
                                    owningBlock |-> NULL]
                  /\ UNCHANGED m_memoryBlocks
             ELSE LET pooled ==
                         IF size < PooledSizeLimit
                         THEN PooledAllocation(
                                 findOrCreateBlock(m_memoryBlocks, memoryTypeIndex, size,
                                                   alignment, poolOk),
                                 size, alignment)
                         ELSE [blocks |-> m_memoryBlocks, allocation |-> NoAllocation]
                  IN /\ m_memoryBlocks' = pooled.blocks
                     /\ allocation' = IF pooled.allocation # NoAllocation
                                      THEN pooled.allocation
                                      ELSE DedicatedAllocation(request')
    /\ pc' = IF allocation'.result = "error" THEN "thrown" ELSE "idle"
    /\ allocations' = IF allocation'.result = "error" THEN allocations
                       ELSE Append(allocations, HandedOut(allocation', request'.alignment))
    /\ UNCHANGED nonAllocatorVars

\* MemoryAllocator::free of an allocation the caller got: nothing but a log
\* line for a pooled allocation, vkFreeMemory for a dedicated one.
MemoryAllocator_free(i) ==
    /\ pc = "idle"
    /\ i \in DOMAIN allocations
    /\ allocations' = IF allocations[i].owningBlock # NULL
                       THEN allocations
                       ELSE RemoveAt(allocations, i)
    /\ UNCHANGED <<pc, m_memoryBlocks, request, allocation, allocCalls, nonAllocatorVars>>

\* ------------------------------------------------- texture descriptor sets
\* What the operations on the counted textures leave alone.
nonPoolVars == <<retTo, m_imageIndex, m_framebufferResized, gpuQueue, recorded, minimized,
                 presentResult, frameVars, syncVars, shaderVars, textureVars, pipelineVars,
                 transferVars, semaphoreVars, sharedVars, entryVars, pushVars, allocatorVars,
                 materialVars, objectVars>>

TextureFilters == {"Linear", "Nearest"}

\* Texture::Texture: a new object without data.
Textures_create(t) ==
    /\ pc = "idle"
    /\ t \notin DOMAIN textures
    /\ textures' = [live \in DOMAIN textures \cup {t} |->
                       IF live = t THEN NewTexture ELSE textures[live]]
    /\ UNCHANGED <<pc, allocatedSets, nonPoolVars>>

\* Texture::cleanup: the handle of the descriptor set is dropped; the set
\* itself stays allocated in the pool.
Texture_cleanup(texture) == [texture EXCEPT !.m_descriptorSet = NULL]

\* Texture::setData on a live texture: cleanup(), the upload, then
\* vkAllocateDescriptorSets takes a new set from the pool; the creation of the
\* sampler or the allocation may fail, and setData throws. A pool that has
\* handed out maxSets sets may still hand out another one; allocatedSets is
\* followed up to one set more than maxSets.
Textures_setData(t) ==
    /\ pc = "idle"
    /\ t \in DOMAIN textures
    /\ allocatedSets <= MaxSets
    /\ \E samplerOk \in BOOLEAN, setOk \in BOOLEAN :
          LET cleaned == Texture_cleanup(textures[t])
          IN IF samplerOk /\ setOk
             THEN /\ allocatedSets' = allocatedSets + 1
                  /\ textures' = [textures EXCEPT
                                     ![t] = [cleaned EXCEPT
                                                !.m_descriptorSet = allocatedSets + 1]]
                  /\ pc' = "idle"
             ELSE /\ textures' = [textures EXCEPT ![t] = cleaned]
                  /\ pc' = "thrown"
                  /\ UNCHANGED allocatedSets
    /\ UNCHANGED nonPoolVars

\* Texture::setFilter on a live texture: the sampler is replaced and the
\* descriptor set, if there is one, is updated in place; createSampler may
\* throw.
Textures_setFilter(t) ==
    /\ pc = "idle"
    /\ t \in DOMAIN textures
    /\ \E minFilter \in TextureFilters, samplerOk \in BOOLEAN :
          /\ textures' = [textures EXCEPT ![t].m_minFilter = minFilter]
          /\ pc' = IF samplerOk THEN "idle" ELSE "thrown"
    /\ UNCHANGED <<allocatedSets, nonPoolVars>>

\* Texture::~Texture: cleanup(), and the object is gone.
Textures_destroy(t) ==
    /\ pc = "idle"
    /\ t \in DOMAIN textures
    /\ textures' = [live \in DOMAIN textures \ {t} |-> textures[live]]
    /\ UNCHANGED <<pc, allocatedSets, nonPoolVars>>

\* ----------------------------------------------------------------- Material
\* What the calls on the material leave alone.
nonMaterialVars == <<retTo, m_imageIndex, m_framebufferResized, gpuQueue, recorded, minimized,
                     presentResult, frameVars, syncVars, shaderVars, textureVars, pipelineVars,
                     transferVars, semaphoreVars, sharedVars, entryVars, pushVars,
                     allocatorVars, poolVars, objectVars>>

\* The texture units an explicit setTexture is called with.
TextureUnits == 0 .. (MAX_TEXTURE_UNITS - 1)
\* Sampler names: three of them, and one more than findAvailableTextureUnit
\* has units.
SamplerNames == {"u_DiffuseMap", "u_NormalMap", "u_SpecularMap"}
ManySamplerNames == {"u_Texture" \o ToString(i) : i \in 0 .. MAX_TEXTURE_UNITS}
\* The textures handed to the material: nullptr or a texture.
MockTexture == 1
\* The shader programs handed to the material: nullptr or a shader.
MockShaderProgram == 1
MaterialShaders == {NULL, MockShaderProgram}
MaterialTextures == {NULL, MockTexture}

\* The values of the properties: a bool or a float of the UniformValue variant.
Bool(b) == [type |-> "bool", v |-> b]
Float(x) == [type |-> "float", v |-> x]

TextureBinding(tex, name, unit) ==
    [texture |-> tex, samplerName |-> name, textureUnit |-> unit]

\* The bindings and the name index of the material, as one value.
ThisMaterial == [bindings |-> m_textureBindings, index |-> m_samplerNameToIndex]

\* Variant of isTextureUnitInUse that looks at the first binding only.
isTextureUnitInUse_FirstOnly(bindings, unit) ==
    Len(bindings) > 0 /\ bindings[1].textureUnit = unit

\* Material::isTextureUnitInUse
isTextureUnitInUse(bindings, unit) ==
    \E i \in 1 .. Len(bindings) : bindings[i].textureUnit = unit

\* Variant of findAvailableTextureUnit that hands out the number of bindings.
findAvailableTextureUnit_Count(bindings) ==
    IF Len(bindings) >= MAX_TEXTURE_UNITS THEN MAX_TEXTURE_UNITS ELSE Len(bindings)

\* Material::findAvailableTextureUnit: the first unit below MAX_TEXTURE_UNITS
\* that is not in use; MAX_TEXTURE_UNITS stands for the std::runtime_error
\* thrown when there is none.
findAvailableTextureUnit(bindings) ==
    LET free == {unit \in 0 .. (MAX_TEXTURE_UNITS - 1) : ~isTextureUnitInUse(bindings, unit)}
    IN IF free = {} THEN MAX_TEXTURE_UNITS
       ELSE CHOOSE unit \in free : \A other \in free : unit <= other

\* std::unordered_map::operator[] assignment.
Assign(map, key, value) ==
    [k \in DOMAIN map \cup {key} |-> IF k = key THEN value ELSE map[k]]

\* Material::setTexture(samplerName, texture, textureUnit): the material it
\* leaves, and whether it threw std::invalid_argument.
setTexture(mat, samplerName, texture, textureUnit) ==
    IF samplerName \in DOMAIN mat.index
    THEN LET index == mat.index[samplerName]
             oldUnit == mat.bindings[index + 1].textureUnit
         IN IF oldUnit # textureUnit /\ isTextureUnitInUse(mat.bindings, textureUnit)
            THEN [mat |-> mat, threw |-> TRUE]
            ELSE [mat |-> [mat EXCEPT
                              !.bindings[index + 1].texture = texture,
                              !.bindings[index + 1].textureUnit = textureUnit],
                  threw |-> FALSE]
    ELSE IF isTextureUnitInUse(mat.bindings, textureUnit)
    THEN [mat |-> mat, threw |-> TRUE]
    ELSE [mat |-> [bindings |-> Append(mat.bindings,
                                       TextureBinding(texture, samplerName, textureUnit)),
                   index |-> Assign(mat.index, samplerName, Len(mat.bindings))],
          threw |-> FALSE]

\* Variant of removeTexture that moves the last binding without updating its
\* entry in the name index.
removeTexture_NoReindex(mat, samplerName) ==
    IF samplerName \notin DOMAIN mat.index THEN mat
    ELSE LET removeIndex == mat.index[samplerName]
             size == Len(mat.bindings)
             back == mat.bindings[size]
             moved == removeIndex < size - 1
             bindings == IF moved
                         THEN [mat.bindings EXCEPT ![removeIndex + 1] = back,
                                                   ![size] = mat.bindings[removeIndex + 1]]
                         ELSE mat.bindings
         IN [bindings |-> SubSeq(bindings, 1, size - 1),
             index |-> [k \in DOMAIN mat.index \ {samplerName} |-> mat.index[k]]]

\* Material::removeTexture: the last binding takes the place of the removed one.
removeTexture(mat, samplerName) ==
    IF samplerName \notin DOMAIN mat.index THEN mat
    ELSE LET removeIndex == mat.index[samplerName]
             size == Len(mat.bindings)
             back == mat.bindings[size]
             moved == removeIndex < size - 1
             index == IF moved THEN Assign(mat.index, back.samplerName, removeIndex)
                      ELSE mat.index
             bindings == IF moved
                         THEN [mat.bindings EXCEPT ![removeIndex + 1] = back,
                                                   ![size] = mat.bindings[removeIndex + 1]]
                         ELSE mat.bindings
         IN [bindings |-> SubSeq(bindings, 1, size - 1),
             index |-> [k \in DOMAIN index \ {samplerName} |-> index[k]]]

\* Material::getTexture: the texture of the binding the name index points
\* to, nullptr for a name that is not in the index.
getTexture(mat, samplerName) ==
    IF samplerName \in DOMAIN mat.index
    THEN mat.bindings[mat.index[samplerName] + 1].texture
    ELSE NULL

\* A call on the material that returned normally, without a value.
Returned(op, samplerName, texture, textureUnit) ==
    [op |-> op, samplerName |-> samplerName, texture |-> texture,
     textureUnit |-> textureUnit, returned |-> NoUnit, threw |-> "none"]

\* Material::Material: a null shader throws std::invalid_argument and no
\* object exists.
Material_Material(shader) ==
    /\ pc = "idle"
    /\ materialType = "none"
    /\ IF shader = NULL
       THEN /\ materialCall' = [Returned("Material", "", NULL, NoUnit)
                                   EXCEPT !.threw = "invalid_argument"]
            /\ UNCHANGED <<materialType, m_shader>>
       ELSE /\ materialCall' = Returned("Material", "", NULL, NoUnit)
            /\ materialType' = "Material"
            /\ m_shader' = shader
    /\ UNCHANGED <<pc, m_textureBindings, m_samplerNameToIndex, m_properties, shaderCalls,
                   nonMaterialVars>>

\* Material::setShader
Material_setShader(shader) ==
    /\ pc = "idle"
    /\ materialType # "none"
    /\ m_shader' = shader
    /\ materialCall' = Returned("setShader", "", NULL, NoUnit)
    /\ shaderCalls' = <<>>
    /\ UNCHANGED <<pc, materialType, m_textureBindings, m_samplerNameToIndex, m_properties,
                   nonMaterialVars>>

\* Material::setTexture with an explicit unit.
Material_setTexture(samplerName, texture, textureUnit) ==
    /\ pc = "idle"
    /\ materialType # "none"
    /\ LET set == setTexture(ThisMaterial, samplerName, texture, textureUnit)
       IN /\ m_textureBindings' = set.mat.bindings
          /\ m_samplerNameToIndex' = set.mat.index
          /\ materialCall' = [Returned("setTexture", samplerName, texture, textureUnit)
                                 EXCEPT !.threw = IF set.threw THEN "invalid_argument"
                                                  ELSE "none"]
    /\ shaderCalls' = <<>>
    /\ UNCHANGED <<pc, materialType, m_shader, m_properties, nonMaterialVars>>

\* Material::setTexture with automatic unit assignment.
Material_setTextureAuto(samplerName, texture) ==
    /\ pc = "idle"
    /\ materialType # "none"
    /\ IF samplerName \in DOMAIN m_samplerNameToIndex
       THEN LET index == m_samplerNameToIndex[samplerName]
                unit == m_textureBindings[index + 1].textureUnit
            IN /\ m_textureBindings' =
                     [m_textureBindings EXCEPT ![index + 1].texture = texture]
               /\ materialCall' = [Returned("setTextureAuto", samplerName, texture, NoUnit)
                                      EXCEPT !.returned = unit]
               /\ UNCHANGED m_samplerNameToIndex
       ELSE LET unit == findAvailableTextureUnit(m_textureBindings)
            IN IF unit = MAX_TEXTURE_UNITS
               THEN /\ materialCall' =
                          [Returned("setTextureAuto", samplerName, texture, NoUnit)
                              EXCEPT !.threw = "runtime_error"]
                    /\ UNCHANGED <<m_textureBindings, m_samplerNameToIndex>>
               ELSE /\ m_textureBindings' =
                          Append(m_textureBindings,
                                 TextureBinding(texture, samplerName, unit))
                    /\ m_samplerNameToIndex' =
                          Assign(m_samplerNameToIndex, samplerName, Len(m_textureBindings))
                    /\ materialCall' =
                          [Returned("setTextureAuto", samplerName, texture, NoUnit)
                              EXCEPT !.returned = unit]
    /\ shaderCalls' = <<>>
    /\ UNCHANGED <<pc, materialType, m_shader, m_properties, nonMaterialVars>>

\* Material::removeTexture
Material_removeTexture(samplerName) ==
    /\ pc = "idle"
    /\ materialType # "none"
    /\ LET removed == removeTexture(ThisMaterial, samplerName)
       IN /\ m_textureBindings' = removed.bindings
          /\ m_samplerNameToIndex' = removed.index
    /\ materialCall' = [Returned("removeTexture", samplerName, NULL, NoUnit)
                           EXCEPT !.returned = samplerName \in DOMAIN m_samplerNameToIndex]
    /\ shaderCalls' = <<>>
    /\ UNCHANGED <<pc, materialType, m_shader, m_properties, nonMaterialVars>>

\* Material::clear
Material_clear ==
    /\ pc = "idle"
    /\ materialType # "none"
    /\ m_textureBindings' = <<>>
    /\ m_samplerNameToIndex' = <<>>
    /\ m_properties' = <<>>
    /\ materialCall' = Returned("clear", "", NULL, NoUnit)
    /\ shaderCalls' = <<>>
    /\ UNCHANGED <<pc, materialType, m_shader, nonMaterialVars>>

\* ------------------------------------------------------------ Material::bind
\* A call on the shader program or on a texture.
ShaderCall(call, name, texture, value) ==
    [call |-> call, name |-> name, texture |-> texture, value |-> value]

\* Material::uploadUniform: a bool goes out as setInt of 1 or 0, a float as
\* setFloat.
uploadUniform(name, value) ==
    IF value.type = "bool"
    THEN ShaderCall("setInt", name, NULL, IF value.v THEN 1 ELSE 0)
    ELSE ShaderCall("setFloat", name, NULL, value.v)

RECURSIVE BindTextures_WithNull(_)
\* Variant of BindTextures that does not skip the bindings without a texture.
BindTextures_WithNull(bindings) ==
    IF bindings = <<>> THEN <<>>
    ELSE LET binding == Head(bindings)
         IN << ShaderCall("bindTexture", "", binding.texture, binding.textureUnit),
               ShaderCall("setInt", binding.samplerName, NULL, binding.textureUnit) >>
            \o BindTextures_WithNull(Tail(bindings))

RECURSIVE BindTextures(_)
\* The loop of Material::bind over m_textureBindings: a binding with a texture
\* binds it to its unit and sets the sampler uniform to the unit.
BindTextures(bindings) ==
    IF bindings = <<>> THEN <<>>
    ELSE LET binding == Head(bindings)
         IN (IF binding.texture # NULL
             THEN << ShaderCall("bindTexture", "", binding.texture, binding.textureUnit),
                     ShaderCall("setInt", binding.samplerName, NULL, binding.textureUnit) >>
             ELSE <<>>)
            \o BindTextures(Tail(bindings))

\* The orders in which a loop over a std::unordered_map can visit its keys.
Orderings(keys) == {order \in [1 .. Cardinality(keys) -> keys] : Range(order) = keys}

\* Material::setProperty
Material_setProperty(name, value) ==
    /\ pc = "idle"
    /\ materialType # "none"
    /\ m_properties' = Assign(m_properties, name, value)
    /\ materialCall' = Returned("setProperty", name, NULL, NoUnit)
    /\ shaderCalls' = <<>>
    /\ UNCHANGED <<pc, materialType, m_shader, m_textureBindings, m_samplerNameToIndex,
                   nonMaterialVars>>

\* Material::bind: a null shader throws std::runtime_error; else the shader
\* is bound, then the textures, then every property is uploaded, in the order
\* the map yields them.
Material_bind ==
    /\ pc = "idle"
    /\ materialType # "none"
    /\ IF m_shader = NULL
       THEN /\ materialCall' = [Returned("bind", "", NULL, NoUnit)
                                   EXCEPT !.threw = "runtime_error"]
            /\ shaderCalls' = <<>>
       ELSE /\ materialCall' = Returned("bind", "", NULL, NoUnit)
            /\ \E order \in Orderings(DOMAIN m_properties) :
                  shaderCalls' =
                     << ShaderCall("bind", "", NULL, 0) >>
                     \o BindTextures(m_textureBindings)
                     \o [i \in 1 .. Len(order) |->
                            uploadUniform(order[i], m_properties[order[i]])]
    /\ UNCHANGED <<pc, materialType, m_shader, m_textureBindings, m_samplerNameToIndex,
                   m_properties, nonMaterialVars>>

\* -------------------------------------------------------------- PBRMaterial
\* The texture units of PBRMaterial's maps.
METALLIC_UNIT == 2
ROUGHNESS_UNIT == 3
AO_UNIT == 4
METALLIC_ROUGHNESS_UNIT == 2

\* The flags PBRMaterial keeps in m_properties; its constructor clears them.
\* The colour and scalar properties it also sets are not followed.
PBRFlags == {"u_HasAlbedoMap", "u_HasNormalMap", "u_HasMetallicMap", "u_HasRoughnessMap",
             "u_HasAOMap", "u_HasMetallicRoughnessMap"}

RECURSIVE setProperties(_, _)
\* Material::setProperty for each <<name, flag>> of the list, in order.
setProperties(properties, flags) ==
    IF flags = <<>> THEN properties
    ELSE setProperties(Assign(properties, Head(flags)[1], Bool(Head(flags)[2])), Tail(flags))

RECURSIVE removeTextures(_, _)
\* Material::removeTexture for each sampler name of the list, in order.
removeTextures(mat, names) ==
    IF names = <<>> THEN mat
    ELSE removeTextures(removeTexture(mat, Head(names)), Tail(names))

\* PBRMaterial::PBRMaterial
PBRMaterial_PBRMaterial(shader) ==
    /\ pc = "idle"
    /\ materialType = "none"
    /\ IF shader = NULL
       THEN /\ materialCall' = [Returned("PBRMaterial", "", NULL, NoUnit)
                                   EXCEPT !.threw = "invalid_argument"]
            /\ UNCHANGED <<materialType, m_shader, m_properties>>
       ELSE /\ materialCall' = Returned("PBRMaterial", "", NULL, NoUnit)
            /\ materialType' = "PBRMaterial"
            /\ m_shader' = shader
            /\ m_properties' = [flag \in PBRFlags |-> Bool(FALSE)]
    /\ UNCHANGED <<pc, m_textureBindings, m_samplerNameToIndex, shaderCalls, nonMaterialVars>>

\* The body of PBRMaterial's map setters. With a texture: setTexture on the
\* map's unit, which may throw, then the flags of setFlags, then removeTexture
\* for the names of separate. With nullptr: removeTexture and the flags of
\* nullFlags.
PBRMaterial_setMap(op, samplerName, unit, texture, setFlags, separate, nullFlags) ==
    /\ pc = "idle"
    /\ materialType = "PBRMaterial"
    /\ IF texture # NULL
       THEN LET set == setTexture(ThisMaterial, samplerName, texture, unit)
                mat == removeTextures(set.mat, separate)
            IN IF set.threw
               THEN /\ materialCall' = [Returned(op, samplerName, texture, unit)
                                           EXCEPT !.threw = "invalid_argument"]
                    /\ UNCHANGED <<m_textureBindings, m_samplerNameToIndex, m_properties>>
               ELSE /\ materialCall' = Returned(op, samplerName, texture, unit)
                    /\ m_textureBindings' = mat.bindings
                    /\ m_samplerNameToIndex' = mat.index
                    /\ m_properties' = setProperties(m_properties, setFlags)
       ELSE LET mat == removeTexture(ThisMaterial, samplerName)
            IN /\ materialCall' = Returned(op, samplerName, texture, unit)
               /\ m_textureBindings' = mat.bindings
               /\ m_samplerNameToIndex' = mat.index
               /\ m_properties' = setProperties(m_properties, nullFlags)
    /\ shaderCalls' = <<>>
    /\ UNCHANGED <<pc, materialType, m_shader, nonMaterialVars>>

\* PBRMaterial::setMetallicMap
PBRMaterial_setMetallicMap(texture) ==
    PBRMaterial_setMap("setMetallicMap", "u_MetallicMap", METALLIC_UNIT, texture,
                       << <<"u_HasMetallicMap", TRUE>>,
                          <<"u_HasMetallicRoughnessMap", FALSE>> >>,
                       <<>>,
                       << <<"u_HasMetallicMap", FALSE>> >>)

\* PBRMaterial::setRoughnessMap
PBRMaterial_setRoughnessMap(texture) ==
    PBRMaterial_setMap("setRoughnessMap", "u_RoughnessMap", ROUGHNESS_UNIT, texture,
                       << <<"u_HasRoughnessMap", TRUE>>,
                          <<"u_HasMetallicRoughnessMap", FALSE>> >>,
                       <<>>,
                       << <<"u_HasRoughnessMap", FALSE>> >>)

\* PBRMaterial::setAOMap
PBRMaterial_setAOMap(texture) ==
    PBRMaterial_setMap("setAOMap", "u_AOMap", AO_UNIT, texture,
                       << <<"u_HasAOMap", TRUE>> >>,
                       <<>>,
                       << <<"u_HasAOMap", FALSE>> >>)

\* PBRMaterial::setMetallicRoughnessMap
PBRMaterial_setMetallicRoughnessMap(texture) ==
    PBRMaterial_setMap("setMetallicRoughnessMap", "u_MetallicRoughnessMap",
                       METALLIC_ROUGHNESS_UNIT, texture,
                       << <<"u_HasMetallicRoughnessMap", TRUE>>,
                          <<"u_HasMetallicMap", FALSE>>,
                          <<"u_HasRoughnessMap", FALSE>> >>,
                       <<"u_MetallicMap", "u_RoughnessMap">>,
                       << <<"u_HasMetallicRoughnessMap", FALSE>> >>)

\* ---------------------------------------------------------- object lifetimes
\* What a vertex array call or a destructor leaves alone.
nonObjectVars == <<pc, retTo, m_imageIndex, m_framebufferResized, gpuQueue, recorded,
                   minimized, presentResult, frameVars, syncVars, shaderVars,
                   m_currentTexture, pipelineVars, transferVars, semaphoreVars, sharedVars,
                   entryVars, pushVars, allocatorVars, poolVars, materialVars>>

Alive(object) == object \notin destroyed

\* Texture::unbind: a no-op.
Texture_unbind ==
    /\ pc = "idle"
    /\ Alive("Texture")
    /\ UNCHANGED <<nonObjectVars, m_sampler, m_descriptorSet, objectVars>>

\* Texture::~Texture: cleanup() returns from vkDeviceWaitIdle once the queue
\* has drained, forgets the descriptor set and destroys the sampler, the
\* view, the image and its memory.
Texture_destroy ==
    /\ pc = "idle"
    /\ Alive("Texture")
    /\ gpuQueue = <<>>
    /\ m_descriptorSet' = NULL
    /\ m_sampler' = NULL
    /\ destroyed' = destroyed \cup {"Texture"}
    /\ UNCHANGED <<nonObjectVars, m_boundVertexArray>>

\* VertexArray::bind -> Renderer::setActiveVertexArray(this)
VertexArray_bind ==
    /\ pc = "idle"
    /\ Alive("VertexArray")
    /\ m_boundVertexArray' = TRUE
    /\ UNCHANGED <<nonObjectVars, m_sampler, m_descriptorSet, destroyed>>

\* VertexArray::unbind: a no-op.
VertexArray_unbind ==
    /\ pc = "idle"
    /\ Alive("VertexArray")
    /\ UNCHANGED <<nonObjectVars, m_sampler, m_descriptorSet, objectVars>>

\* VertexArray::~VertexArray: an empty body.
VertexArray_destroy ==
    /\ pc = "idle"
    /\ Alive("VertexArray")
    /\ destroyed' = destroyed \cup {"VertexArray"}
    /\ UNCHANGED <<nonObjectVars, m_sampler, m_descriptorSet, m_boundVertexArray>>

\* What a read through a pointer to a destroyed object leaves alone when it
\* faults.
nonPcVars == <<retTo, m_imageIndex, m_framebufferResized, gpuQueue, recorded, minimized,
               presentResult, frameVars, syncVars, shaderVars, textureVars, extVars>>

\* beginFrame reads m_currentTexture->getDescriptorSet() of a destroyed
\* texture: the read faults, or it returns what cleanup() left there and
\* beginFrame_Record goes on.
beginFrame_Record_Destroyed ==
    /\ pc = "record"
    /\ m_currentTexture
    /\ ~Alive("Texture")
    /\ pc' = "crashed"
    /\ UNCHANGED nonPcVars

\* drawArrays reads m_boundVertexArray->getVertexBuffer() of a destroyed
\* vertex array: the read faults, or it returns what the object held and
\* endFrame goes on.
drawArrays_Destroyed ==
    /\ pc = "endFrame"
    /\ m_frameBegun
    /\ m_boundVertexArray
    /\ ~Alive("VertexArray")
    /\ pc' = "crashed"
    /\ UNCHANGED nonPcVars

\* ------------------------------------------------------------------ shutdown
\* Application::shutdown after the main loop has ended: the shader manager's
\* cleanup(), then Renderer::shutdown up to its vkDeviceWaitIdle.
shutdown ==
    /\ pc = "idle"
    /\ m_pipeline' = [s \in Shaders |-> "none"]
    /\ m_cullMode' = CullModes(m_pipeline', m_cullingEnabled)
    /\ pc' = "shutdown"
    /\ UNCHANGED <<retTo, m_imageIndex, m_framebufferResized, gpuQueue, recorded, minimized,
                   presentResult, frameVars, syncVars, m_currentShader, textureVars,
                   m_cullingEnabled, m_renderPass>>
    /\ UNCHANGED nonPipelineExtVars

\* Variant of shutdown_DeviceWaitIdle that does not wait for the queue.
shutdown_NoDeviceWait ==
    /\ pc = "shutdown"
    /\ pc' = "shutdownSwapChain"
    /\ UNCHANGED <<retTo, m_imageIndex, m_framebufferResized, gpuQueue, recorded, minimized,
                   presentResult, frameVars, syncVars, shaderVars, textureVars, extVars>>

\* Renderer::shutdown: vkDeviceWaitIdle returns once the queue has drained.
shutdown_DeviceWaitIdle ==
    /\ pc = "shutdown"
    /\ gpuQueue = <<>>
    /\ pc' = "shutdownSwapChain"
    /\ UNCHANGED <<retTo, m_imageIndex, m_framebufferResized, gpuQueue, recorded, minimized,
                   presentResult, frameVars, syncVars, shaderVars, textureVars, extVars>>

\* Renderer::shutdown: cleanupSwapChain() (which ends with the render pass),
\* then the semaphores and the fences, up to the fence waits of
\* cleanupTransferCommandPool.
shutdown_CleanupSwapChain ==
    /\ pc = "shutdownSwapChain"
    /\ m_renderPass' = VK_NULL_HANDLE
    /\ numSemaphores' = 0
    /\ m_renderFinishedSemaphores' = <<>>
    /\ m_imageAvailableSemaphores' = <<>>
    /\ m_inFlightFences' = <<>>
    /\ pc' = "shutdownTransfer"
    /\ UNCHANGED <<retTo, m_imageIndex, m_framebufferResized, gpuQueue, recorded, minimized,
                   presentResult, frameVars, m_imagesInFlight, numImages, shaderVars,
                   textureVars, m_cullingEnabled, m_cullMode, transferVars, resourceVars>>

\* Renderer::shutdown: cleanupTransferCommandPool() once every transfer fence
\* is signaled, then the descriptor pool, the pipeline layout and the
\* descriptor-set layout, and the swapchain image list.
shutdown_CleanupTransfer ==
    /\ pc = "shutdownTransfer"
    /\ \A i \in DOMAIN m_transferCommandBuffers :
          m_transferCommandBuffers[i].fence = "signaled"
    /\ m_transferCommandBuffers' = <<>>
    /\ m_descriptorPool' = VK_NULL_HANDLE
    /\ m_pipelineLayout' = VK_NULL_HANDLE
    /\ m_descriptorSetLayout' = VK_NULL_HANDLE
    /\ numImages' = 0
    /\ pc' = "down"
    /\ UNCHANGED <<retTo, m_imageIndex, m_framebufferResized, gpuQueue, recorded, minimized,
                   presentResult, frameVars, m_inFlightFences, m_imagesInFlight, shaderVars,
                   textureVars, pipelineVars, transferCmd, transferQueue, held,
                   semaphoreVars, nonSharedVars>>


\* ---------------------------------------------------------- specifications
\* One draw call, step by step, and the GPU.
FrameStep ==
    \/ drawArrays
    \/ drawElements
    \/ beginFrame
    \/ beginFrame_WaitFence
    \/ beginFrame_Acquire
    \/ beginFrame_WaitImage
    \/ beginFrame_Record
    \/ endFrame
    \/ recreateSwapChain
    \/ GpuComplete

ShaderStep ==
    \/ \E s \in Shaders : onShaderLoaded(s)
    \/ \E s \in Shaders : ShaderProgram_bind(s)
    \/ ShaderProgram_unbind

WindowStep ==
    \/ setViewport
    \/ recreateSwapChain_WaitEvents

TextureStep ==
    \/ Texture_bind
    \/ Texture_setData
    \/ Texture_setData_Upload
    \/ Texture_setFilter
    \/ Texture_setWrap

\* The whole model.
Next == FrameStep \/ ShaderStep \/ WindowStep \/ TextureStep

Spec == Init /\ [][Next]_vars

\* The frame protocol with shaders and window events; the texture is left alone.
NextFrames == FrameStep \/ ShaderStep \/ WindowStep

SpecFrames == Init /\ [][NextFrames]_vars

\* The frame protocol with a texture whose sampler is replaced, started after
\* every shader has been loaded and built and the first one bound; the window
\* is never resized.
InitDeferred ==
    /\ pc = "idle"
    /\ retTo = "none"
    /\ m_currentFrame = 0
    /\ m_imageIndex = 0
    /\ m_frameBegun = FALSE
    /\ m_framebufferResized = FALSE
    /\ m_inFlightFences = [k \in Slots |-> "signaled"]
    /\ numImages = InitialImageCount
    /\ m_imagesInFlight = [i \in 0 .. (numImages - 1) |-> NULL]
    /\ gpuQueue = <<>>
    /\ m_deferredDeletions = <<>>
    /\ m_pipeline = [s \in Shaders |-> "built"]
    /\ m_currentShader = 1
    /\ m_sampler = NULL
    /\ m_descriptorSet = NULL
    /\ m_currentTexture = FALSE
    /\ recorded = NULL
    /\ minimized = FALSE
    /\ presentResult = "none"
    /\ framesCompleted = 0
    /\ InitExt

NextDeferred == FrameStep \/ TextureStep

SpecDeferred == InitDeferred /\ [][NextDeferred]_vars

\* SpecFrames with a GPU that completes what is submitted to it and fence
\* waits that return once their fence is signaled.  Each fair action always
\* changes the variable of its subscript (GpuComplete shortens gpuQueue, a
\* wait that returns moves pc), so the subscript stands for vars.
SpecFramesFair ==
    /\ SpecFrames
    /\ WF_gpuQueue(GpuComplete)
    /\ WF_pc(beginFrame_WaitFence)
    /\ WF_pc(beginFrame_WaitImage)

\* Frames, window events and sampler replacement on a texture that no
\* descriptor set references.
NextResize == FrameStep \/ WindowStep \/ Texture_setFilter
SpecResize == InitDeferred /\ [][NextResize]_vars

\* One draw call without the swapchain recreation, and the GPU.
DrawStep ==
    \/ drawArrays
    \/ drawElements
    \/ beginFrame
    \/ beginFrame_WaitFence
    \/ beginFrame_Acquire
    \/ beginFrame_WaitImage
    \/ beginFrame_Record
    \/ endFrame
    \/ GpuComplete

\* recreateSwapChain, one call of its body at a time.
RecreateStep ==
    \/ recreateSwapChain_DeviceWaitIdle
    \/ recreateSwapChain_DestroyPipelines
    \/ cleanupSwapChain
    \/ recreateSwapChain_Create
    \/ recreateSwapChain_ResetImagesInFlight
    \/ recreateSwapChain_CreatePipelines

CullingStep ==
    \/ \E enable \in BOOLEAN : enableCulling(enable)
    \/ enableCulling_Rebuild

\* The pipelines through shader loads, culling toggles and stepwise swapchain
\* recreations, with the frame protocol around them.
NextPipelines == DrawStep \/ RecreateStep \/ WindowStep \/ ShaderStep \/ CullingStep

SpecPipelines == Init /\ [][NextPipelines]_vars

TransferStep ==
    \/ beginSingleTimeCommands
    \/ acquireTransferCommandBuffer
    \/ \E commandBuffer \in TransferSlots : endSingleTimeCommands(commandBuffer)
    \/ endSingleTimeCommands_Release
    \/ GpuCompleteTransfer

\* The transfer pool under any sequence of begin and end calls, with the
\* window events of the main loop in between.
NextTransfer == TransferStep \/ setViewport

SpecTransfer == Init /\ [][NextTransfer]_vars

\* Texture::setData and its upload commands called on their own, any pair of
\* layouts passed to transitionImageLayout, with the window events of the
\* main loop in between.
UploadStep ==
    \/ Texture_setData_Begin
    \/ \E k \in DOMAIN SetDataUploads : Texture_setData_Submit(k)
    \/ \E k \in DOMAIN SetDataUploads : Texture_setData_Release(k)
    \/ \E oldLayout \in ImageLayouts, newLayout \in ImageLayouts :
          Texture_transitionImageLayout(oldLayout, newLayout)
    \/ Texture_copyBufferToImage
    \/ Texture_upload_Submit
    \/ Texture_transitionImageLayout_Unsupported
    \/ endSingleTimeCommands_Release
    \/ GpuCompleteTransfer

NextUploads == UploadStep \/ setViewport

SpecUploads == Init /\ [][NextUploads]_vars

\* As InitDeferred, with the texture already given data by setData (sampler
\* 1 and a descriptor set that references it) and bound.
InitFilter ==
    /\ pc = "idle"
    /\ retTo = "none"
    /\ m_currentFrame = 0
    /\ m_imageIndex = 0
    /\ m_frameBegun = FALSE
    /\ m_framebufferResized = FALSE
    /\ m_inFlightFences = [k \in Slots |-> "signaled"]
    /\ numImages = InitialImageCount
    /\ m_imagesInFlight = [i \in 0 .. (numImages - 1) |-> NULL]
    /\ gpuQueue = <<>>
    /\ m_deferredDeletions = <<>>
    /\ m_pipeline = [s \in Shaders |-> "built"]
    /\ m_currentShader = 1
    /\ m_sampler = 1
    /\ m_descriptorSet = 1
    /\ m_currentTexture = TRUE
    /\ recorded = NULL
    /\ minimized = FALSE
    /\ presentResult = "none"
    /\ framesCompleted = 0
    /\ InitExt

\* The frame protocol with a texture whose filter is changed, up to
\* MaxQueue + 1 replaced samplers waiting at a time.
NextFilter == FrameStep \/ ReplaceSamplerWithin(MaxQueue + 1)

SpecFilter == InitFilter /\ [][NextFilter]_vars

ShutdownStep ==
    \/ shutdown
    \/ shutdown_DeviceWaitIdle
    \/ shutdown_CleanupSwapChain
    \/ shutdown_CleanupTransfer

\* The resources every pipeline and texture shares, through frames, stepwise
\* swapchain recreations and the final shutdown, for a texture that holds a
\* descriptor set.
NextShared == DrawStep \/ RecreateStep \/ WindowStep \/ ShutdownStep

SpecShared == InitFilter /\ [][NextShared]_vars

\* Frames and filter changes of a texture that holds a descriptor set, ended
\* by the shutdown of the renderer.
NextTeardown == FrameStep \/ Texture_setFilter \/ ShutdownStep

SpecTeardown == InitFilter /\ [][NextTeardown]_vars

\* Binds, unbinds and destructions of the texture, the vertex array and the
\* shader programs between draw calls; a live object is never used after its
\* destructor by the caller itself.
ObjectStep ==
    \/ Alive("Texture") /\ Texture_bind
    \/ Texture_unbind
    \/ Texture_destroy
    \/ VertexArray_bind
    \/ VertexArray_unbind
    \/ VertexArray_destroy
    \/ beginFrame_Record_Destroyed
    \/ drawArrays_Destroyed
    \/ \E s \in Shaders : ShaderProgram_bind(s)
    \/ ShaderProgram_unbind

NextObjects == FrameStep \/ ObjectStep

SpecObjects == InitFilter /\ [][NextObjects]_vars

\* As Init, with or without a shader manager attached to the renderer.
InitWithManager(attached) ==
    /\ pc = "idle"
    /\ retTo = "none"
    /\ m_currentFrame = 0
    /\ m_imageIndex = 0
    /\ m_frameBegun = FALSE
    /\ m_framebufferResized = FALSE
    /\ m_inFlightFences = [k \in Slots |-> "signaled"]
    /\ numImages = InitialImageCount
    /\ m_imagesInFlight = [i \in 0 .. (numImages - 1) |-> NULL]
    /\ gpuQueue = <<>>
    /\ m_deferredDeletions = <<>>
    /\ m_pipeline = [s \in Shaders |-> "none"]
    /\ m_currentShader = NULL
    /\ m_sampler = NULL
    /\ m_descriptorSet = NULL
    /\ m_currentTexture = FALSE
    /\ recorded = NULL
    /\ minimized = FALSE
    /\ presentResult = "none"
    /\ framesCompleted = 0
    /\ InitPipelineState /\ createTransferCommandPool /\ createSyncObjects /\ InitShared
    /\ m_isValid = [s \in Shaders |-> TRUE]
    /\ m_shaderManager = attached
    /\ shaderName = NULL
    /\ InitPush
    /\ InitLater

InitAnyManager == \E attached \in BOOLEAN : InitWithManager(attached)

EntryStep ==
    \/ \E s \in Shaders : loadShader(s)
    \/ \E name \in Shaders : Renderer_onShaderLoaded(name)
    \/ Renderer_onShaderLoaded_Build
    \/ \E s \in Shaders : ShaderProgram_bind(s)
    \/ ShaderProgram_unbind

\* Shaders loaded, announced to the renderer and bound, with draw calls in
\* between.
NextEntries == DrawStep \/ EntryStep

SpecEntries == InitAnyManager /\ [][NextEntries]_vars

\* Shaders loaded and announced to the renderer any number of times, with
\* culling toggles, draw calls, stepwise swapchain recreations and the final
\* shutdown around them.
NextOwnership ==
    DrawStep \/ RecreateStep \/ WindowStep \/ EntryStep \/ CullingStep \/ ShutdownStep

SpecOwnership == InitAnyManager /\ [][NextOwnership]_vars

PushStep ==
    \/ \E s \in Shaders, name \in Mat4Names : ShaderProgram_setMat4(s, name)
    \/ \E s \in Shaders : ShaderProgram_bind(s)

\* Draw calls with matrices set and programs selected in between, started
\* after every shader has been loaded and built.
NextPush == DrawStep \/ PushStep

SpecPush == InitDeferred /\ [][NextPush]_vars

\* Pool blocks as earlier requests can have left them: every block has the
\* default size (a pooled request is below PooledSizeLimit, so twice its size
\* is below the default), holds at least one allocation, and a block that
\* has a later block of its memory type had no room for the request that
\* created the later one.
BlockFills == {15728640, 267386880}
BlockLists ==
    UNION {[1 .. n -> [memoryTypeIndex : MemoryTypes, size : {DEFAULT_BLOCK_SIZE},
                       used : BlockFills]] : n \in 0 .. MaxBlocks}
ReachableBlocks(blocks) ==
    \A i, j \in 1 .. Len(blocks) :
        i < j /\ blocks[i].memoryTypeIndex = blocks[j].memoryTypeIndex
            => blocks[i].used > DEFAULT_BLOCK_SIZE - PooledSizeLimit

\* The renderer after initialize() with an allocator that has served earlier
\* requests.
InitBlocks ==
    /\ pc = "idle"
    /\ retTo = "none"
    /\ m_currentFrame = 0
    /\ m_imageIndex = 0
    /\ m_frameBegun = FALSE
    /\ m_framebufferResized = FALSE
    /\ m_inFlightFences = [k \in Slots |-> "signaled"]
    /\ numImages = InitialImageCount
    /\ m_imagesInFlight = [i \in 0 .. (numImages - 1) |-> NULL]
    /\ gpuQueue = <<>>
    /\ m_deferredDeletions = <<>>
    /\ m_pipeline = [s \in Shaders |-> "none"]
    /\ m_currentShader = NULL
    /\ m_sampler = NULL
    /\ m_descriptorSet = NULL
    /\ m_currentTexture = FALSE
    /\ recorded = NULL
    /\ minimized = FALSE
    /\ presentResult = "none"
    /\ framesCompleted = 0
    /\ InitPipelineState /\ createTransferCommandPool /\ createSyncObjects
    /\ InitShared /\ InitEntries /\ InitPush
    /\ m_memoryBlocks \in {blocks \in BlockLists : ReachableBlocks(blocks)}
    /\ request = NoRequest
    /\ allocation = NoAllocation
    /\ allocCalls = 0
    /\ allocations = <<>>
    /\ createDescriptorPool /\ InitTextures /\ InitMaterial /\ InitObjects

\* Buffer allocations and frees, one call after the other.
NextAllocator ==
    \/ allocateBufferMemory
    \/ \E i \in 1 .. MaxAllocs : MemoryAllocator_free(i)

SpecAllocator == InitBlocks /\ [][NextAllocator]_vars

\* Textures created, loaded, refiltered and destroyed, one call after the other.
PoolStep ==
    \E t \in Textures :
        \/ Textures_create(t)
        \/ Textures_setData(t)
        \/ Textures_setFilter(t)
        \/ Textures_destroy(t)

NextPool == PoolStep

SpecPool == InitFilter /\ [][NextPool]_vars

\* The calls that set and remove textures, for sampler names and textures of
\* the given sets.
TextureCalls(names, texs) ==
    \/ \E shader \in MaterialShaders : Material_Material(shader)
    \/ \E samplerName \in names, texture \in texs, textureUnit \in TextureUnits :
          Material_setTexture(samplerName, texture, textureUnit)
    \/ \E samplerName \in names, texture \in texs :
          Material_setTextureAuto(samplerName, texture)
    \/ \E samplerName \in names : Material_removeTexture(samplerName)
    \/ Material_clear

\* A plain Material with three sampler names and a texture or nullptr.
MaterialStep == TextureCalls(SamplerNames, MaterialTextures)

NextMaterial == MaterialStep

SpecMaterial == InitFilter /\ [][NextMaterial]_vars

\* A plain Material with more sampler names than findAvailableTextureUnit has
\* units: textures set without a unit, removed, cleared.
UnitStep ==
    \/ \E shader \in MaterialShaders : Material_Material(shader)
    \/ \E samplerName \in ManySamplerNames :
          Material_setTextureAuto(samplerName, MockTexture)
    \/ \E samplerName \in ManySamplerNames : Material_removeTexture(samplerName)
    \/ Material_clear

NextUnits == UnitStep

SpecUnits == InitFilter /\ [][NextUnits]_vars

\* A PBRMaterial whose metallic, roughness, ambient-occlusion and combined
\* maps are set and reset.
PBRStep ==
    \/ \E shader \in MaterialShaders : PBRMaterial_PBRMaterial(shader)
    \/ \E texture \in MaterialTextures :
          \/ PBRMaterial_setMetallicMap(texture)
          \/ PBRMaterial_setRoughnessMap(texture)
          \/ PBRMaterial_setAOMap(texture)
          \/ PBRMaterial_setMetallicRoughnessMap(texture)

NextPBR == PBRStep

SpecPBR == InitFilter /\ [][NextPBR]_vars

\* The sampler names of the materials that are bound.
BoundSamplerNames == {"u_DiffuseMap", "u_NormalMap"}

\* A Material that is given textures, properties and a shader, and is bound.
BindStep ==
    \/ \E shader \in MaterialShaders : Material_Material(shader)
    \/ \E shader \in MaterialShaders : Material_setShader(shader)
    \/ \E samplerName \in BoundSamplerNames, texture \in MaterialTextures,
          textureUnit \in TextureUnits :
          Material_setTexture(samplerName, texture, textureUnit)
    \/ Material_setProperty("u_Shininess", Float(32))
    \/ \E flag \in BOOLEAN : Material_setProperty("u_HasDiffuseMap", Bool(flag))
    \/ Material_clear
    \/ Material_bind

NextBind == BindStep

SpecBind == InitFilter /\ [][NextBind]_vars

\* ------------------------------------------------------------------ claims
\* The records of the queue that the step destroys: a record leaves the queue
\* only when a sweep destroys it, and no queued handle is handed out again.
Destroyed == {r \in Range(m_deferredDeletions) :
                 r.handle \notin QueuedHandles(m_deferredDeletions')}

\* C1: no sweep destroys a record before N = MAX_FRAMES_IN_FLIGHT frames have
\* completed after its enqueue (the sweep that destroys it ends at least the
\* N-th such frame).
C1_NotBeforeNFrames ==
    [][\A r \in Destroyed : r.age + 1 >= MAX_FRAMES_IN_FLIGHT]_vars

\* C2: when a sweep destroys a deferred handle, no frame still pending on the
\* GPU references it (every frame recorded with the handle has completed and
\* signaled its fence).
C2_NotDestroyedInFlight ==
    [][\A r \in Destroyed :
          \A i \in 1 .. Len(gpuQueue') : gpuQueue'[i].sampler # r.handle]_vars

\* C3: every queued record is destroyed no later than the sweep of the 2N-th
\* frame completed after its enqueue: no record outlives 2N - 1 sweeps, so no
\* queued record has seen 2N completed frames.
C3_DestroyedWithin2N ==
    \A r \in Range(m_deferredDeletions) : r.age < 2 * MAX_FRAMES_IN_FLIGHT

\* A record that a sweep has examined and kept is waiting for a later sweep.
C3_Witness ==
    \E r \in Range(m_deferredDeletions) : r.age >= 1 /\ pc = "idle"

\* Slots whose submitted frame the GPU has not completed.
PendingSlots == {gpuQueue[i].slot : i \in 1 .. Len(gpuQueue)}

\* C4: at most N = MAX_FRAMES_IN_FLIGHT frames are in flight, i.e. submitted
\* with a frame-slot fence that is still unsignaled.
C4_AtMostNInFlight ==
    /\ Len(gpuQueue) <= MAX_FRAMES_IN_FLIGHT
    /\ \A i \in 1 .. Len(gpuQueue) : m_inFlightFences[gpuQueue[i].slot] = "unsignaled"

\* N frames are in flight at once.
C4_Witness == Len(gpuQueue) = MAX_FRAMES_IN_FLIGHT

\* C5: when beginFrame resets and re-records the command buffer of slot k,
\* the fence of slot k has been observed signaled since the slot's last
\* submit: the slot's previous submission is no longer pending.
C5_ResetAfterFence ==
    pc = "record" =>
        /\ m_inFlightFences[m_currentFrame] = "signaled"
        /\ m_currentFrame \notin PendingSlots

\* A slot is about to be reset for reuse while the other slot's frame is
\* still in flight.
C5_Witness ==
    /\ pc = "record"
    /\ framesCompleted >= MAX_FRAMES_IN_FLIGHT
    /\ PendingSlots # {}

\* C6: two frame slots never write the same swapchain image concurrently:
\* the frame being recorded targets an image that no pending frame targets,
\* and no two pending frames target the same image.
C6_NoSharedImage ==
    /\ pc \in {"record", "endFrame"} /\ (pc = "endFrame" => m_frameBegun)
          => \A i \in 1 .. Len(gpuQueue) : gpuQueue[i].image # m_imageIndex
    /\ \A i, j \in 1 .. Len(gpuQueue) :
          i # j => gpuQueue[i].image # gpuQueue[j].image

\* beginFrame has acquired an image tagged by the other slot and has waited
\* for that slot's fence, while the image count differs from N.
C6_Witness ==
    /\ pc = "record"
    /\ m_imagesInFlight[m_imageIndex] # NULL
    /\ m_imagesInFlight[m_imageIndex] # FenceOf(m_currentFrame)
    /\ numImages # MAX_FRAMES_IN_FLIGHT

\* The CPU thread is between the fence reset of beginFrame and the queue
\* submit of endFrame (or was stopped there by a throw or a fault).
ResetNotYetSubmitted == (pc = "endFrame" /\ m_frameBegun) \/ pc \in {"thrown", "crashed"}

\* C7: the fence of slot k is reset only by the beginFrame that records and
\* submits slot k, never before an early return: outside that frame every
\* unsignaled fence has exactly one pending submission that will signal it,
\* and every wait on a frame-slot fence or an image fence returns.
C7_ResetThenSubmit ==
    /\ [](\A k \in Slots :
             m_inFlightFences[k] = "unsignaled" /\ k \notin PendingSlots
                => k = m_currentFrame /\ ResetNotYetSubmitted)
    /\ [](\A i, j \in 1 .. Len(gpuQueue) : i # j => gpuQueue[i].slot # gpuQueue[j].slot)
    /\ [][\A k \in Slots :
             m_inFlightFences[k] = "signaled" /\ m_inFlightFences'[k] = "unsignaled"
                => k = m_currentFrame /\ pc = "record" /\ pc' \in {"endFrame", "thrown"}]_vars
    /\ (pc = "waitFence" ~> pc = "acquire")
    /\ (pc = "waitImage" ~> pc = "record")

\* beginFrame has returned early on an out-of-date acquire, with the other
\* slot's frame in flight, and its own slot's fence is still signaled.
C7_Witness ==
    /\ pc = "recreate"
    /\ retTo = "begin"
    /\ m_inFlightFences[m_currentFrame] = "signaled"
    /\ PendingSlots # {}

\* The step is the return of an endFrame that has submitted its frame.
CompletesFrame ==
    /\ (pc = "endFrame" /\ m_frameBegun) \/ (pc = "recreate" /\ retTo = "end")
    /\ pc' = "idle"

\* C8: every completed frame advances the frame counter by exactly one
\* modulo N, so back-to-back frames use the indices 0,1,0,1,0; every other
\* step, a skipped or aborted frame included, leaves the counter alone.
C8_CounterAdvance ==
    /\ [](framesCompleted < MaxFrames
             => m_currentFrame = framesCompleted % MAX_FRAMES_IN_FLIGHT)
    /\ [][IF CompletesFrame
          THEN m_currentFrame' = (m_currentFrame + 1) % MAX_FRAMES_IN_FLIGHT
          ELSE m_currentFrame' = m_currentFrame]_vars

\* The fifth frame is being recorded in slot 0.
C8_Witness ==
    /\ framesCompleted = 4
    /\ pc = "record"
    /\ m_currentFrame = 0

\* C9: a draw call that finds no shader selected, or a selected shader whose
\* pipeline is null, is skipped: beginFrame returns to the caller at once and
\* the draw call returns, with no fence waited on or reset, no image
\* acquired, nothing recorded or submitted, and the frame counter, the
\* images-in-flight table and the fences unchanged.
C9_SkippedDraw ==
    [][pc = "beginFrame" /\ pc' # pc
          /\ (m_currentShader = NULL \/ m_pipeline[m_currentShader] # "built")
       => /\ pc' = "idle"
          /\ UNCHANGED <<m_currentFrame, m_imageIndex, m_frameBegun, m_inFlightFences,
                         m_imagesInFlight, gpuQueue, recorded, m_deferredDeletions,
                         framesCompleted, retTo>>]_vars

\* A draw call has arrived while the selected shader's pipeline is null and
\* an earlier frame is still in flight.
C9_Witness ==
    /\ pc = "beginFrame"
    /\ m_currentShader # NULL
    /\ m_pipeline[m_currentShader] = "null"
    /\ gpuQueue # <<>>

\* The step is endFrame's handling of the present result, after the submit.
Presents == pc = "endFrame" /\ Len(gpuQueue') = Len(gpuQueue) + 1

\* C10: when the present returns out-of-date or suboptimal, or a resize is
\* flagged, endFrame clears the flag and recreates the swapchain instead of
\* throwing; the recreation then returns once, with the counter advanced and
\* the sweep run; endFrame throws only on another present failure.
C10_RecreateOnStalePresent ==
    /\ [][Presents /\ (m_framebufferResized
                         \/ presentResult' \in {"VK_ERROR_OUT_OF_DATE_KHR",
                                                "VK_SUBOPTIMAL_KHR"})
             => pc' = "recreate" /\ retTo' = "end" /\ ~m_framebufferResized']_vars
    /\ [][Presents /\ pc' = "thrown"
             => /\ ~m_framebufferResized
                /\ presentResult' \notin {"VK_SUCCESS", "VK_SUBOPTIMAL_KHR",
                                          "VK_ERROR_OUT_OF_DATE_KHR"}]_vars
    /\ [][pc = "recreate" /\ retTo = "end" /\ pc' # pc
             => \/ pc' = "thrown"
                \/ /\ pc' = "idle"
                   /\ retTo' = "none"
                   /\ ~m_frameBegun'
                   /\ m_currentFrame' = (m_currentFrame + 1) % MAX_FRAMES_IN_FLIGHT
                   /\ \A r \in Range(m_deferredDeletions') : ~Due(m_currentFrame', r)
                   /\ Len(m_deferredDeletions') <= Len(m_deferredDeletions)]_vars

\* endFrame has gone to recreate the swapchain after a suboptimal present,
\* with a deferred record waiting for the sweep.
C10_Witness ==
    /\ pc = "recreate"
    /\ retTo = "end"
    /\ presentResult = "VK_SUBOPTIMAL_KHR"
    /\ ~m_framebufferResized
    /\ m_deferredDeletions # <<>>

\* The shaders that have been loaded, and those whose pipeline is compiled.
Loaded(p) == {s \in Shaders : p[s] # "none"}
Compiled(p) == {s \in Shaders : p[s] = "built"}

\* The CPU thread is inside recreateSwapChain.
InRecreate ==
    pc \in {"recreate", "destroyPipelines", "cleanupSwapChain", "createSwapChain",
            "resetImagesInFlight", "createPipelines"}

\* The step is the last one of recreateSwapChain: it returns to its caller.
RecreateReturns == pc = "createPipelines" /\ pc' # pc

NoImageInFlight == \A i \in DOMAIN m_imagesInFlight : m_imagesInFlight[i] = NULL

\* C12: recreateSwapChain works in a fixed order. The render pass is torn
\* down only with a nonzero extent, an idle device and every pipeline
\* destroyed; pipelines are rebuilt only against the rebuilt render pass and
\* after every images-in-flight entry was reset to null. No pipeline exists
\* while the render pass is destroyed, and when the recreation returns the
\* table has one null entry per swapchain image.
C12_RecreateOrder ==
    /\ [](m_renderPass = VK_NULL_HANDLE => Compiled(m_pipeline) = {})
    /\ [][pc = "destroyPipelines" /\ pc' # pc => ~minimized /\ gpuQueue = <<>>]_vars
    /\ [][m_renderPass # VK_NULL_HANDLE /\ m_renderPass' = VK_NULL_HANDLE
             => ~minimized /\ gpuQueue = <<>> /\ Compiled(m_pipeline) = {}]_vars
    /\ [][InRecreate /\ ~(Compiled(m_pipeline') \subseteq Compiled(m_pipeline))
             => /\ pc = "createPipelines"
                /\ m_renderPass = "created"
                /\ NoImageInFlight
                /\ DOMAIN m_imagesInFlight = 0 .. (numImages - 1)]_vars
    /\ [][RecreateReturns
             => /\ DOMAIN m_imagesInFlight' = 0 .. (numImages' - 1)
                /\ \A i \in DOMAIN m_imagesInFlight' : m_imagesInFlight'[i] = NULL]_vars

\* A recreation started by endFrame, whose frame had tagged its image, has
\* rebuilt a three-image swapchain and reset the table, and is about to
\* rebuild the pipeline of the loaded shader.
C12_Witness ==
    /\ pc = "createPipelines"
    /\ retTo = "end"
    /\ numImages = MaxImages
    /\ Loaded(m_pipeline) # {}
    /\ NoImageInFlight

\* C13: outside a running enableCulling call, every compiled pipeline was
\* built with the cull mode of the current culling flag, so culling switched
\* on and then off leaves every pipeline with cull mode none; the flag changes
\* only in enableCulling, and a call neither adds nor removes a shader.
C13_CullModeMatches ==
    /\ [](pc # "enableCulling"
             => \A s \in Compiled(m_pipeline) :
                   m_cullMode[s] = CullModeOf(m_cullingEnabled))
    /\ [][m_cullingEnabled' # m_cullingEnabled
             => pc = "idle" /\ pc' = "enableCulling"]_vars
    /\ [][pc = "enableCulling" \/ pc' = "enableCulling"
             => Loaded(m_pipeline') = Loaded(m_pipeline)]_vars
    /\ [][pc = "enableCulling" /\ pc' = "idle" /\ ~m_cullingEnabled'
             => \A s \in Compiled(m_pipeline') : m_cullMode'[s] = "VK_CULL_MODE_NONE"]_vars

\* Culling was switched on and the pipeline rebuilt with back-face culling;
\* the call that switches it off again has set the flag and is waiting for
\* the device to go idle before it rebuilds.
C13_Witness ==
    /\ pc = "enableCulling"
    /\ ~m_cullingEnabled
    /\ \E s \in Compiled(m_pipeline) : m_cullMode[s] = "VK_CULL_MODE_BACK_BIT"

\* C14 (as claimed): an acquire that blocks is waiting for a fence that the
\* GPU will signal: the fence is signaled already or the slot's submission
\* is in the queue. With every slot held, the acquire waits on the first
\* slot's fence, which was reset and never submitted.
C14_AcquireNeverDeadlocks ==
    pc = "acquireTransfer"
       => \/ m_transferCommandBuffers[transferCmd].fence = "signaled"
          \/ transferCmd \in Range(transferQueue)

\* C15: a transfer slot that is not in use has a signaled fence, so the
\* acquire of a free slot finds its fence signaled and does not block; a
\* slot's in-use mark is cleared only by the end of an upload whose fence has
\* signaled, and the fence stays signaled.
C15_FreeSlotSignaled ==
    /\ [](\A i \in TransferSlots :
             ~m_transferCommandBuffers[i].inUse
                => m_transferCommandBuffers[i].fence = "signaled")
    /\ [](pc = "acquireTransfer" /\ ~m_transferCommandBuffers[transferCmd].inUse
             => m_transferCommandBuffers[transferCmd].fence = "signaled")
    /\ [][\A i \in TransferSlots :
             m_transferCommandBuffers[i].inUse /\ ~m_transferCommandBuffers'[i].inUse
                => /\ pc = "endTransfer" /\ transferCmd = i
                   /\ m_transferCommandBuffers[i].fence = "signaled"
                   /\ m_transferCommandBuffers'[i].fence = "signaled"]_vars

\* A slot has been used and released and is being acquired again while
\* another slot is held.
C15_Witness ==
    /\ pc = "acquireTransfer"
    /\ transferCmd = 1
    /\ held = {2}
    /\ ~m_transferCommandBuffers[1].inUse

\* The step is the return of endSingleTimeCommands.
EndReturns == pc = "endTransfer" /\ pc' = "idle"

\* C16: an upload is synchronous. endSingleTimeCommands returns for a buffer
\* handed out by beginSingleTimeCommands only with that buffer's submission
\* completed, its fence signaled and its slot released; whenever no upload
\* is under way (no caller holds a buffer) every slot is free with a signaled
\* fence and nothing is pending on the queue.
C16_UploadSynchronous ==
    /\ [][EndReturns
             => /\ transferCmd \in held
                /\ m_transferCommandBuffers'[transferCmd].fence = "signaled"
                /\ ~m_transferCommandBuffers'[transferCmd].inUse
                /\ transferCmd \notin Range(transferQueue')
                /\ transferCmd \notin held']_vars
    /\ [](pc = "idle" /\ held = {}
             => /\ transferQueue = <<>>
                /\ \A i \in TransferSlots :
                      /\ ~m_transferCommandBuffers[i].inUse
                      /\ m_transferCommandBuffers[i].fence = "signaled")

\* endSingleTimeCommands is about to return for slot 1, whose submission has
\* completed, and no other upload is under way.
C16_Witness ==
    /\ pc = "endTransfer"
    /\ transferCmd = 1
    /\ held = {1}
    /\ transferQueue = <<>>
    /\ m_transferCommandBuffers[1].fence = "signaled"

\* The step replaces the texture's sampler (setFilter or setWrap returns).
ReplacesSampler == pc = "idle" /\ pc' = "idle" /\ m_sampler' # m_sampler

\* C17: each filter change on a texture with data appends the replaced
\* sampler to the deferred-deletion queue, tagged with the current frame
\* counter, without destroying anything, and points the descriptor set at
\* the new sampler. Hence after two changes in the same frame the descriptor
\* set references the final sampler and each replaced sampler is queued
\* exactly once: no handle is queued twice and the live sampler is not queued.
C17_FilterTwice ==
    /\ [][ReplacesSampler /\ m_sampler # NULL
             => /\ m_deferredDeletions' =
                      Append(m_deferredDeletions,
                             [type |-> "Sampler", handle |-> m_sampler,
                              frameIndex |-> m_currentFrame, age |-> 0])
                /\ Destroyed = {}
                /\ m_sampler' \notin QueuedHandles(m_deferredDeletions')
                /\ m_descriptorSet # NULL => m_descriptorSet' = m_sampler']_vars
    /\ [](\A i, j \in 1 .. Len(m_deferredDeletions) :
             m_deferredDeletions[i].handle = m_deferredDeletions[j].handle => i = j)
    /\ [](pc # "thrown" /\ m_descriptorSet # NULL
             => m_descriptorSet = m_sampler /\ m_sampler \notin QueuedHandles(m_deferredDeletions))

\* The filter was changed twice before any frame: both replaced samplers
\* wait in the queue and the descriptor set references the third sampler.
C17_Witness ==
    /\ framesCompleted = 0
    /\ pc = "idle"
    /\ gpuQueue = <<>>
    /\ Len(m_deferredDeletions) = 2
    /\ QueuedHandles(m_deferredDeletions) = {1, 2}
    /\ m_sampler = 3
    /\ m_descriptorSet = 3

\* C18 (as claimed): when the texture replaces the sampler it owns, setData
\* included, the old handle is found in the deferred-deletion queue
\* afterwards instead of being destroyed on the spot.
C18_ReplacedHandleQueued ==
    [][m_sampler # NULL /\ pc' # "thrown"
          /\ (ReplacesSampler \/ (pc = "setData" /\ pc' # pc))
       => m_sampler \in QueuedHandles(m_deferredDeletions')]_vars

\* C19 (as claimed): within a frame the acquire signals the frame-indexed
\* acquire semaphore, which has no signal waiting; the submit waits on that
\* same semaphore and signals the render-finished semaphore indexed by the
\* acquired image, an element of the vector with no signal waiting; the
\* present waits on exactly the semaphore the submit signals.
C19_SemaphorePairing ==
    /\ [][pc = "acquire" /\ pc' = "waitImage"
             => /\ m_imageAvailableSemaphores[AcquireSemaphore] = "unsignaled"
                /\ m_imageAvailableSemaphores'[AcquireSemaphore] = "signaled"]_vars
    /\ [][Presents
             => LET frame == gpuQueue'[Len(gpuQueue')]
                IN /\ frame.wait = AcquireSemaphore
                   /\ m_imageAvailableSemaphores[frame.wait] = "signaled"
                   /\ frame.signal = m_imageIndex
                   /\ frame.presentWait = frame.signal
                   /\ frame.signal \in DOMAIN m_renderFinishedSemaphores
                   /\ m_renderFinishedSemaphores[frame.signal] = "unsignaled"]_vars

\* C20 (as claimed): there are as many acquire semaphores and as many
\* render-finished semaphores as the swapchain has images, so the image
\* index of a begun frame is an index of the render-finished semaphores.
C20_SemaphoresMatchImages ==
    /\ DOMAIN m_imageAvailableSemaphores = 0 .. (numImages - 1)
    /\ DOMAIN m_renderFinishedSemaphores = 0 .. (numImages - 1)
    /\ pc = "endFrame" /\ m_frameBegun => m_imageIndex \in DOMAIN m_renderFinishedSemaphores

\* ---- C21
\* The step destroys the render pass, the pipeline layout, the
\* descriptor-set layout or the descriptor pool.
DestroysShared ==
    \/ m_renderPass # VK_NULL_HANDLE /\ m_renderPass' = VK_NULL_HANDLE
    \/ m_pipelineLayout # VK_NULL_HANDLE /\ m_pipelineLayout' = VK_NULL_HANDLE
    \/ m_descriptorSetLayout # VK_NULL_HANDLE /\ m_descriptorSetLayout' = VK_NULL_HANDLE
    \/ m_descriptorPool # VK_NULL_HANDLE /\ m_descriptorPool' = VK_NULL_HANDLE

\* The CPU thread is past a vkDeviceWaitIdle of recreateSwapChain or shutdown
\* and has not yet left the destructions that follow it.
AfterIdleWait ==
    pc \in {"destroyPipelines", "cleanupSwapChain", "shutdownSwapChain", "shutdownTransfer"}

\* C21: every destruction of the render pass, the pipeline layout, the
\* descriptor-set layout or the descriptor pool happens after a device-idle
\* wait that returned with nothing pending on the queue, and nothing is
\* submitted between that wait and the destruction; a swapchain recreation
\* leaves the pipeline layout, the descriptor-set layout, the descriptor pool
\* and the texture's descriptor set as they were.
C21_SharedDestroyedIdle ==
    [][/\ DestroysShared =>
            AfterIdleWait /\ gpuQueue = <<>> /\ transferQueue = <<>>
       /\ AfterIdleWait' /\ ~AfterIdleWait => gpuQueue = <<>> /\ transferQueue = <<>>
       /\ AfterIdleWait => gpuQueue' = <<>> /\ transferQueue' = <<>>
       /\ InRecreate => UNCHANGED <<sharedVars, m_descriptorSet>>]_vars

\* The shutdown has destroyed all four after an earlier recreation (which left
\* more tracked images than the first swapchain had) destroyed and recreated
\* the render pass alone; the texture held its descriptor set throughout.
C21_Witness ==
    /\ pc = "down"
    /\ m_renderPass = VK_NULL_HANDLE
    /\ m_pipelineLayout = VK_NULL_HANDLE
    /\ m_descriptorSetLayout = VK_NULL_HANDLE
    /\ m_descriptorPool = VK_NULL_HANDLE
    /\ m_descriptorSet # NULL
    /\ Cardinality(DOMAIN m_imagesInFlight) > InitialImageCount
    /\ framesCompleted > 0

\* ---- C22
\* The step is the body of Renderer::onShaderLoaded.
OnShaderLoadedReturns == pc = "onShaderLoaded" /\ pc' = "idle"

\* Everything but the position of the CPU thread and the call's argument.
entryState == <<retTo, m_imageIndex, m_framebufferResized, gpuQueue, recorded, minimized,
                presentResult, frameVars, syncVars, shaderVars, textureVars, pipelineVars,
                transferVars, semaphoreVars, sharedVars, m_isValid, m_shaderManager>>

\* C22: a pipeline entry is null until its first successful build (a pipeline
\* becomes compiled only in an onShaderLoaded that was not refused);
\* onShaderLoaded for an unknown or invalid shader, or with no shader manager
\* attached, changes no state; a failed compilation leaves the entry's
\* pipeline null; and a draw call that finds the selected entry's pipeline
\* null is skipped with nothing submitted.
C22_EntryInert ==
    [][/\ \A s \in Shaders :
             m_pipeline[s] # "built" /\ m_pipeline'[s] = "built"
                => OnShaderLoadedReturns /\ shaderName = s /\ ~Refused(s)
       /\ OnShaderLoadedReturns /\ Refused(shaderName) => UNCHANGED entryState
       /\ OnShaderLoadedReturns /\ ~Refused(shaderName)
             => \/ m_pipeline'[shaderName] = "built" /\ m_isValid'[shaderName]
                \/ m_pipeline'[shaderName] = "null" /\ ~m_isValid'[shaderName]
       /\ pc = "beginFrame" /\ pc' # pc
             /\ m_currentShader # NULL /\ m_pipeline[m_currentShader] = "null"
             => pc' = "idle" /\ UNCHANGED <<gpuQueue, m_frameBegun, m_currentFrame>>]_vars

\* A draw call arrives for a selected entry whose compilation failed (the
\* entry is loaded, null and no longer valid), with nothing submitted so far.
C22_Witness ==
    /\ pc = "beginFrame"
    /\ m_currentShader # NULL
    /\ m_pipeline[m_currentShader] = "null"
    /\ ~m_isValid[m_currentShader]
    /\ gpuQueue = <<>>
    /\ framesCompleted = 0

\* ---- C23
\* The step is beginFrame's recording of the command buffer, begun
\* successfully.
RecordsFrame == pc = "record" /\ pc' = "endFrame"

\* The step is a call of setMat4.
SetsMat4 == uniformCall' # uniformCall

\* C23: setMat4 with the name model, view or projection sets the program's
\* pending flag and any other name leaves every flag unchanged; a frame whose
\* recording begins with the selected program's flag set pushes the constants
\* once and clears the flag; one that begins with the flag clear pushes
\* nothing; no other step pushes or changes a flag, so a frame never holds
\* more than one push.
C23_PushOncePerFrame ==
    [][/\ SetsMat4 =>
            /\ uniformCall'.name \in {"model", "view", "projection"}
                  => m_hasPendingUpdates' =
                        [m_hasPendingUpdates EXCEPT ![uniformCall'.shader] = TRUE]
            /\ uniformCall'.name \notin {"model", "view", "projection"}
                  => UNCHANGED m_hasPendingUpdates
            /\ UNCHANGED pushCount
       /\ RecordsFrame /\ m_hasPendingUpdates[m_currentShader] =>
            /\ pushCount' = 1
            /\ m_hasPendingUpdates' = [m_hasPendingUpdates EXCEPT ![m_currentShader] = FALSE]
       /\ RecordsFrame /\ ~m_hasPendingUpdates[m_currentShader] =>
            /\ pushCount' = 0
            /\ UNCHANGED m_hasPendingUpdates
       /\ ~SetsMat4 /\ pc # "record" => UNCHANGED <<m_hasPendingUpdates, pushCount>>
       /\ pushCount' <= 1]_vars

\* After an earlier frame has completed, a frame that began with the
\* selected program's flag set has pushed the constants and cleared the flag.
C23_Witness ==
    /\ pc = "endFrame"
    /\ pushCount = 1
    /\ m_currentShader # NULL
    /\ ~m_hasPendingUpdates[m_currentShader]
    /\ framesCompleted > 0

\* ---- C24
\* The step is a call of allocateBufferMemory that found a memory type.
Allocates == allocCalls' # allocCalls /\ request'.typeFound

\* The blocks of the request's memory type with room for it, aligned.
Fitting(blocks, req) ==
    {i \in 1 .. Len(blocks) :
        /\ blocks[i].memoryTypeIndex = req.memoryTypeIndex
        /\ AlignedOffset(blocks[i].used, req.alignment) + req.size <= blocks[i].size}

\* C24: a buffer request below 16 MiB is served from the first existing
\* block of its memory type with enough aligned free space, at the aligned
\* offset, and only that block's used counter moves; if no block fits and the
\* new block can be created, the new block is appended with size
\* max(256 MiB, 2 x size) and the request is served from its offset 0.
C24_PooledFirstFit ==
    [][Allocates /\ request'.size < PooledSizeLimit =>
          LET req == request'
              fit == Fitting(m_memoryBlocks, req)
          IN /\ fit # {} =>
                   LET first == CHOOSE i \in fit : \A j \in fit : i <= j
                   IN /\ allocation'.result = "pooled"
                      /\ allocation'.owningBlock = first
                      /\ allocation'.offset =
                            AlignedOffset(m_memoryBlocks[first].used, req.alignment)
                      /\ allocation'.size = req.size
                      /\ m_memoryBlocks' =
                            [m_memoryBlocks EXCEPT
                                ![first].used = allocation'.offset + req.size]
             /\ fit = {} /\ req.poolOk =>
                   /\ allocation'.result = "pooled"
                   /\ allocation'.owningBlock = Len(m_memoryBlocks) + 1
                   /\ allocation'.offset = 0
                   /\ allocation'.size = req.size
                   /\ m_memoryBlocks' =
                         Append(m_memoryBlocks,
                                [memoryTypeIndex |-> req.memoryTypeIndex,
                                 size |-> Max(DEFAULT_BLOCK_SIZE, 2 * req.size),
                                 used |-> req.size])]_vars

\* A request was served from the second block because the first block of its
\* memory type was too full for it.
C24_Witness ==
    /\ allocation # NoAllocation
    /\ allocation.result = "pooled"
    /\ allocation.owningBlock = 2
    /\ m_memoryBlocks[1].memoryTypeIndex = request.memoryTypeIndex
    /\ allocation.offset > 0
    /\ allocCalls = MaxAllocs

\* ---- C25
\* The step is any call of allocateBufferMemory.
CallsAllocate == allocCalls' # allocCalls

\* The call reaches the dedicated allocation: the request is at or above the
\* threshold, or no block fits and the new pool block cannot be created.
FallsBack ==
    /\ request'.typeFound
    /\ \/ request'.size >= PooledSizeLimit
       \/ Fitting(m_memoryBlocks, request') = {} /\ ~request'.poolOk

\* C25 (original wording): for a request at or above the threshold, or when
\* creating a new pool block fails, allocate raises an error only if the
\* dedicated allocation itself fails.
C25_ErrorOnlyFromDedicated ==
    [][CallsAllocate
          /\ (request'.size >= PooledSizeLimit
                 \/ (Fitting(m_memoryBlocks, request') = {} /\ ~request'.poolOk))
          /\ allocation'.result = "error"
       => request'.typeFound /\ ~request'.dedicatedOk]_vars

\* C25: a request at or above the threshold, or one for which no block fits
\* and the new pool block cannot be created, gets a dedicated allocation (no
\* owning block, offset 0, exactly the required size) and leaves the pool
\* blocks as they were; the call raises an error when that dedicated
\* allocation fails, the only other error being that no memory type suits
\* the request, which is raised before anything is allocated.
C25_DedicatedFallback ==
    [][/\ CallsAllocate /\ FallsBack =>
             /\ UNCHANGED m_memoryBlocks
             /\ request'.dedicatedOk =>
                   allocation' = [result |-> "dedicated", offset |-> 0,
                                  size |-> request'.size, owningBlock |-> NULL]
             /\ ~request'.dedicatedOk => allocation'.result = "error"
       /\ CallsAllocate /\ allocation'.result = "error" =>
             /\ UNCHANGED m_memoryBlocks
             /\ ~request'.typeFound \/ (FallsBack /\ ~request'.dedicatedOk)]_vars

\* A request below the threshold got a dedicated allocation because no block
\* had room and the new pool block could not be created.
C25_Witness ==
    /\ allocation # NoAllocation
    /\ allocation.result = "dedicated"
    /\ request.size < PooledSizeLimit
    /\ ~request.poolOk
    /\ allocation.size = request.size
    /\ Len(m_memoryBlocks) > 0

\* The live textures that hold data: those with a descriptor set.
LoadedTextures == {t \in DOMAIN textures : textures[t].m_descriptorSet # NULL}

\* C26: the number of descriptor sets allocated from the shared pool equals
\* the number of live textures that hold data, whatever sequence of setData,
\* setFilter and destructions led there.
C26_SetsMatchTextures == allocatedSets = Cardinality(LoadedTextures)

\* No two texture bindings of the material share a texture unit.
NoSharedUnit(bindings) ==
    \A i, j \in 1 .. Len(bindings) :
        i # j => bindings[i].textureUnit # bindings[j].textureUnit

\* The step is a call of setTexture with an explicit unit.
SetsTexture == materialCall'.op = "setTexture"

\* The unit the call asks for is used by a binding with another sampler name.
UsedByOther(call) ==
    \E i \in 1 .. Len(m_textureBindings) :
        /\ m_textureBindings[i].textureUnit = call.textureUnit
        /\ m_textureBindings[i].samplerName # call.samplerName

\* The positions of the bindings with the call's sampler name.
BoundAt(bindings, call) ==
    {i \in 1 .. Len(bindings) : bindings[i].samplerName = call.samplerName}

\* What setTexture(name, texture, unit) does: it throws std::invalid_argument
\* exactly when the unit is used under another name, and then changes nothing;
\* for a name that is bound it replaces the texture and the unit of that
\* binding and leaves the others, and their number, as they were.
SetTextureContract(call) ==
    /\ call.threw = (IF UsedByOther(call) THEN "invalid_argument" ELSE "none")
    /\ call.threw # "none" => UNCHANGED <<m_textureBindings, m_samplerNameToIndex>>
    /\ (call.threw = "none" /\ BoundAt(m_textureBindings, call) # {}) =>
          /\ Len(m_textureBindings') = Len(m_textureBindings)
          /\ \A i \in 1 .. Len(m_textureBindings) :
                m_textureBindings'[i] =
                   IF i \in BoundAt(m_textureBindings, call)
                   THEN TextureBinding(call.texture, call.samplerName, call.textureUnit)
                   ELSE m_textureBindings[i]

Called(op) == materialCall # NoCall /\ materialCall.op = op

SetsTextureAuto == materialCall'.op = "setTextureAuto"

\* The lowest texture unit that no binding uses.
LowestUnusedUnit(bindings) ==
    CHOOSE unit \in 0 .. Len(bindings) :
        /\ \A i \in 1 .. Len(bindings) : bindings[i].textureUnit # unit
        /\ \A lower \in 0 .. (unit - 1) :
              \E i \in 1 .. Len(bindings) : bindings[i].textureUnit = lower

\* The call returned the unit and left the material with the bindings.
GivesUnit(call, unit, bindings) ==
    /\ call.threw = "none"
    /\ call.returned = unit
    /\ m_textureBindings' = bindings

\* For a bound sampler name the call keeps and returns the binding's unit and
\* replaces its texture.
KeepsUnit(call) ==
    \A i \in BoundAt(m_textureBindings, call) :
        GivesUnit(call, m_textureBindings[i].textureUnit,
                  [m_textureBindings EXCEPT ![i].texture = call.texture])

\* For a new sampler name the call appends a binding on the unit and returns it.
AppendsOn(call, unit) ==
    GivesUnit(call, unit,
              Append(m_textureBindings,
                     TextureBinding(call.texture, call.samplerName, unit)))

\* C28 as stated: setTexture(name, texture) gives a new sampler name the lowest
\* texture unit that no binding uses and returns it, and keeps and returns the
\* unit of a sampler name that is bound.
C28_LowestUnusedUnit ==
    [][SetsTextureAuto =>
          IF BoundAt(m_textureBindings, materialCall') # {}
          THEN KeepsUnit(materialCall')
          ELSE AppendsOn(materialCall', LowestUnusedUnit(m_textureBindings))]_vars

\* C28, amended: setTexture(name, texture) gives a new sampler name the lowest
\* texture unit below MAX_TEXTURE_UNITS that no binding uses and returns it;
\* when every unit below MAX_TEXTURE_UNITS is in use it throws
\* std::runtime_error and changes nothing; it keeps and returns the unit of a
\* sampler name that is bound.
C28_LowestUnusedUnitBelowMax ==
    [][SetsTextureAuto =>
          IF BoundAt(m_textureBindings, materialCall') # {}
          THEN KeepsUnit(materialCall')
          ELSE IF LowestUnusedUnit(m_textureBindings) < MAX_TEXTURE_UNITS
          THEN AppendsOn(materialCall', LowestUnusedUnit(m_textureBindings))
          ELSE /\ materialCall'.threw = "runtime_error"
               /\ UNCHANGED <<m_textureBindings, m_samplerNameToIndex>>]_vars

\* C28 witness: the automatic setTexture gave a new sampler name a unit that a
\* removeTexture had freed, below the units of other bindings, and the
\* material now uses every unit.
C28_Witness ==
    /\ Called("setTextureAuto")
    /\ materialCall.threw = "none"
    /\ Len(m_textureBindings) = MAX_TEXTURE_UNITS
    /\ m_textureBindings[Len(m_textureBindings)].samplerName = materialCall.samplerName
    /\ m_textureBindings[Len(m_textureBindings)].textureUnit = materialCall.returned
    /\ materialCall.returned < Len(m_textureBindings) - 1

\* The material has a binding with the sampler name.
HasBinding(samplerName) ==
    \E i \in 1 .. Len(m_textureBindings) : m_textureBindings[i].samplerName = samplerName

\* The flag of the material's properties has the value.
FlagIs(flag, value) ==
    /\ flag \in DOMAIN m_properties
    /\ m_properties[flag].type = "bool"
    /\ m_properties[flag].v = value

\* C29: after setMetallicRoughnessMap with a texture on a PBRMaterial in any
\* state the call has succeeded, the texture is bound under
\* u_MetallicRoughnessMap, u_HasMetallicRoughnessMap is true, u_HasMetallicMap
\* and u_HasRoughnessMap are false, and no u_MetallicMap or u_RoughnessMap
\* binding remains.
C29_CombinedMapReplaces ==
    (Called("setMetallicRoughnessMap") /\ materialCall.texture # NULL) =>
        /\ materialCall.threw = "none"
        /\ \E i \in 1 .. Len(m_textureBindings) :
              /\ m_textureBindings[i].samplerName = "u_MetallicRoughnessMap"
              /\ m_textureBindings[i].texture = materialCall.texture
        /\ FlagIs("u_HasMetallicRoughnessMap", TRUE)
        /\ FlagIs("u_HasMetallicMap", FALSE)
        /\ FlagIs("u_HasRoughnessMap", FALSE)
        /\ ~HasBinding("u_MetallicMap")
        /\ ~HasBinding("u_RoughnessMap")

\* The bindings of the material that have a texture.
WithTexture == {i \in 1 .. Len(m_textureBindings) : m_textureBindings[i].texture # NULL}

\* The calls bind() made after binding the shader start with the texture
\* calls, two for each binding with a texture.
LastTextureCall == 1 + 2 * Cardinality(WithTexture)

\* C30: bind() on a material with a shader binds the shader first, then binds
\* every texture that is not null to its unit and sets the binding's sampler
\* uniform to the unit, then uploads every stored property, and calls nothing
\* else; bind() on a material whose shader is null throws std::runtime_error
\* and has called nothing.
C30_BindOrder ==
    Called("bind") =>
        IF m_shader = NULL
        THEN materialCall.threw = "runtime_error" /\ shaderCalls = <<>>
        ELSE /\ materialCall.threw = "none"
             /\ Len(shaderCalls) = LastTextureCall + Cardinality(DOMAIN m_properties)
             /\ shaderCalls[1] = ShaderCall("bind", "", NULL, 0)
             /\ \A i \in WithTexture :
                   \E p \in 2 .. (LastTextureCall - 1) :
                      /\ shaderCalls[p] =
                            ShaderCall("bindTexture", "", m_textureBindings[i].texture,
                                       m_textureBindings[i].textureUnit)
                      /\ shaderCalls[p + 1] =
                            ShaderCall("setInt", m_textureBindings[i].samplerName, NULL,
                                       m_textureBindings[i].textureUnit)
             /\ \A name \in DOMAIN m_properties :
                   \E p \in (LastTextureCall + 1) .. Len(shaderCalls) :
                      /\ shaderCalls[p].name = name
                      /\ shaderCalls[p].value =
                            (IF m_properties[name].type = "bool"
                             THEN (IF m_properties[name].v THEN 1 ELSE 0)
                             ELSE m_properties[name].v)
                      /\ shaderCalls[p].call =
                            (IF m_properties[name].type = "bool" THEN "setInt"
                             ELSE "setFloat")

\* C30 witness: bind() returned on a material with a shader, two bindings of
\* which one has no texture, and two properties.
C30_Witness ==
    /\ Called("bind")
    /\ materialCall.threw = "none"
    /\ Len(m_textureBindings) = 2
    /\ Cardinality(WithTexture) = 1
    /\ Cardinality(DOMAIN m_properties) = 2
    /\ Len(shaderCalls) = 5

\* ------------------------------------------------ abandoned frames (C31)
\* beginFrame has returned early out of an out-of-date acquire and its
\* recreateSwapChain has not returned yet.
Abandoning == pc = "recreate" /\ retTo = "begin"

\* The step is vkAcquireNextImageKHR reporting VK_ERROR_OUT_OF_DATE_KHR.
AcquireOutOfDate == pc = "acquire" /\ pc' = "recreate"

\* The step is the return of the recreateSwapChain of an abandoned frame, and
\* with it the return of beginFrame and of the draw call.
AbandonReturns == Abandoning /\ pc' = "idle"

\* C31: when the acquire in beginFrame reports out-of-date the swapchain is
\* recreated and the frame is abandoned: the frame is not marked begun, the
\* slot's fence stays signaled, no image is tagged in flight, nothing is
\* recorded or submitted, the frame counter does not advance, and the fence
\* the next beginFrame of the slot waits on is signaled.
C31_AbandonedFrame ==
    /\ [][AcquireOutOfDate
             => /\ retTo' = "begin"
                /\ UNCHANGED <<m_frameBegun, m_inFlightFences, m_imagesInFlight, gpuQueue,
                               recorded, m_currentFrame, framesCompleted, m_imageIndex,
                               m_imageAvailableSemaphores, m_renderFinishedSemaphores>>]_vars
    /\ [](Abandoning => ~m_frameBegun /\ m_inFlightFences[m_currentFrame] = "signaled")
    /\ [][AbandonReturns
             => /\ ~m_frameBegun'
                /\ \A i \in DOMAIN m_imagesInFlight' : m_imagesInFlight'[i] = NULL
                /\ m_inFlightFences'[m_currentFrame'] = "signaled"
                /\ gpuQueue' = <<>>
                /\ UNCHANGED <<recorded, m_currentFrame, framesCompleted, m_inFlightFences>>]_vars

\* An out-of-date acquire has abandoned the second frame while the first
\* frame's image is still tagged, and the GPU has drained, so the
\* recreation can run.
C31_Witness ==
    /\ Abandoning
    /\ framesCompleted = 1
    /\ gpuQueue = <<>>
    /\ ~minimized
    /\ \E i \in DOMAIN m_imagesInFlight : m_imagesInFlight[i] # NULL

\* ------------------------------------------- holders of a transfer slot (C32)
\* The step is the return of acquireTransferCommandBuffer, and with it of
\* beginSingleTimeCommands, with the command buffer of slot transferCmd.
AcquireReturns == pc = "acquireTransfer" /\ pc' = "idle"

\* C32: acquire never hands out a transfer slot that a caller of
\* beginSingleTimeCommands still holds: the slot it returns is neither held nor
\* marked in use, the in-use slots are exactly the held ones, and an acquire
\* that selected a held slot (the pool is exhausted) waits on a fence that is
\* unsignaled with nothing submitted for it, so it does not return.
C32_OneHolder ==
    /\ [][AcquireReturns
             => /\ transferCmd \notin held
                /\ ~m_transferCommandBuffers[transferCmd].inUse
                /\ held' = held \cup {transferCmd}]_vars
    /\ [](held = {i \in TransferSlots : m_transferCommandBuffers[i].inUse})
    /\ [](pc = "acquireTransfer" /\ transferCmd \in held
             => /\ m_transferCommandBuffers[transferCmd].fence = "unsignaled"
                /\ transferCmd \notin Range(transferQueue))

\* Every slot of the pool is held and one more acquire has selected the
\* first slot.
C32_Witness ==
    /\ pc = "acquireTransfer"
    /\ held = TransferSlots
    /\ transferCmd \in held
    /\ transferQueue = <<>>

\* ------------------------------------------- release of transfer slots (C33)
\* No slot of the transfer pool is in use and every fence is signaled.
AllSlotsFree ==
    \A i \in TransferSlots :
       /\ ~m_transferCommandBuffers[i].inUse
       /\ m_transferCommandBuffers[i].fence = "signaled"

C34_QueueEmptyAtShutdown == pc = "down" => m_deferredDeletions = <<>>

\* ---- C35
\* The step runs ShaderProgram::createPipeline for entry s: an onShaderLoaded
\* that was not refused, or the createAllPipelines of a swapchain recreation.
CreatesPipeline(s) ==
    \/ OnShaderLoadedReturns /\ shaderName = s /\ ~Refused(s)
    \/ pc = "createPipelines" /\ pc' # pc /\ m_pipeline[s] # "none"

\* C35: each shader entry owns at most one live pipeline and none is lost:
\* a step that creates a pipeline for an entry never finds a live pipeline
\* in it (the handle it stores would replace one that was never destroyed).
C35_NoOverwrite ==
    [][\A s \in Shaders : CreatesPipeline(s) => m_pipeline[s] # "built"]_vars

\* ---- C36
\* C36: the renderer's references never dangle where they are read: beginFrame
\* reads the current shader and the current texture, and drawArrays reads the
\* bound vertex array, only while the object is alive.
C36_NoDangling ==
    /\ pc = "beginFrame" /\ m_currentShader # NULL => m_pipeline[m_currentShader] # "none"
    /\ pc = "record" /\ m_currentTexture => Alive("Texture")
    /\ pc = "endFrame" /\ m_frameBegun /\ m_boundVertexArray => Alive("VertexArray")

\* ---- C37
\* The byte ranges of two allocations do not overlap.
DisjointRanges(a, b) == a.offset + a.size <= b.offset \/ b.offset + b.size <= a.offset

\* The allocations carved from pool blocks so far.
Pooled == {i \in DOMAIN allocations : allocations[i].owningBlock # NULL}

\* The step is a call of free on a dedicated allocation.
FreesDedicated == Len(allocations') < Len(allocations)

\* C37: the pooled allocations carved from one block are pairwise disjoint,
\* each starts at a multiple of its alignment and ends inside its block; no
\* step removes a block, lowers a block's used counter or gives up a pooled
\* allocation (free of a pooled allocation changes nothing); free of a
\* dedicated allocation releases that allocation alone and touches no block.
C37_PooledLayout ==
    /\ [](\A i \in Pooled :
             /\ allocations[i].offset % allocations[i].alignment = 0
             /\ allocations[i].offset + allocations[i].size
                   <= m_memoryBlocks[allocations[i].owningBlock].size
             /\ \A j \in Pooled :
                   i # j /\ allocations[i].owningBlock = allocations[j].owningBlock
                      => DisjointRanges(allocations[i], allocations[j]))
    /\ [][/\ Len(m_memoryBlocks') >= Len(m_memoryBlocks)
          /\ \A b \in DOMAIN m_memoryBlocks :
                m_memoryBlocks'[b].used >= m_memoryBlocks[b].used
          /\ {allocations[i] : i \in Pooled}
                \subseteq {allocations'[i] : i \in DOMAIN allocations'}
          /\ FreesDedicated =>
                /\ UNCHANGED <<m_memoryBlocks, request, allocation, allocCalls>>
                /\ \E i \in DOMAIN allocations :
                      /\ i \notin Pooled
                      /\ allocations' = RemoveAt(allocations, i)]_vars

\* Two allocations were carved from the same block, the second after a gap
\* that aligns it: the block's used counter ends at the second allocation.
C37_Witness ==
    /\ allocCalls = 2
    /\ Len(allocations) = 2
    /\ Pooled = {1, 2}
    /\ allocations[1].owningBlock = allocations[2].owningBlock
    /\ allocations[2].offset > allocations[1].offset + allocations[1].size
    /\ m_memoryBlocks[allocations[2].owningBlock].used
          = allocations[2].offset + allocations[2].size

\* ---- C38
\* The material after the step.
NextMaterialValue == [bindings |-> m_textureBindings', index |-> m_samplerNameToIndex']

\* The step leaves what getTexture returns for every sampler name but one.
KeepsOtherTextures(samplerName) ==
    \A other \in SamplerNames \ {samplerName} :
        getTexture(NextMaterialValue, other) = getTexture(ThisMaterial, other)

\* C38: the name index has exactly one entry per binding and maps every
\* binding's sampler name to the binding's position; after a setTexture that
\* returned, getTexture gives the texture set for the name and what it gave
\* for the other names; a call that threw changes nothing; removeTexture of
\* an unknown name returns false and changes nothing, removeTexture of a
\* bound name returns true, removes that binding alone and keeps what
\* getTexture gives for the other names; clear empties both.
C38_IndexConsistent ==
    /\ [](/\ Cardinality(DOMAIN m_samplerNameToIndex) = Len(m_textureBindings)
          /\ \A i \in 1 .. Len(m_textureBindings) :
                /\ m_textureBindings[i].samplerName \in DOMAIN m_samplerNameToIndex
                /\ m_samplerNameToIndex[m_textureBindings[i].samplerName] = i - 1)
    /\ [][LET call == materialCall'
          IN /\ call.op \in {"setTexture", "setTextureAuto"} /\ call.threw = "none" =>
                   /\ call.samplerName \in DOMAIN m_samplerNameToIndex'
                   /\ getTexture(NextMaterialValue, call.samplerName) = call.texture
                   /\ KeepsOtherTextures(call.samplerName)
             /\ call.threw # "none" => UNCHANGED <<m_textureBindings, m_samplerNameToIndex>>
             /\ call.op = "removeTexture" =>
                   /\ call.returned = (call.samplerName \in DOMAIN m_samplerNameToIndex)
                   /\ ~call.returned => UNCHANGED <<m_textureBindings, m_samplerNameToIndex>>
                   /\ call.returned =>
                         /\ DOMAIN m_samplerNameToIndex' =
                               DOMAIN m_samplerNameToIndex \ {call.samplerName}
                         /\ Len(m_textureBindings') = Len(m_textureBindings) - 1
                         /\ Range(m_textureBindings') =
                               {b \in Range(m_textureBindings) :
                                   b.samplerName # call.samplerName}
                         /\ KeepsOtherTextures(call.samplerName)
             /\ call.op = "clear" =>
                   m_textureBindings' = <<>> /\ m_samplerNameToIndex' = <<>>]_vars

\* removeTexture returned true and left two bindings, the one that was last
\* now first: the index maps its name to position 0.
C38_Witness ==
    /\ Called("removeTexture")
    /\ materialCall.returned
    /\ Len(m_textureBindings) = 2
    /\ m_textureBindings[1].textureUnit = 2
    /\ m_textureBindings[2].textureUnit = 1
    /\ m_textureBindings[1].texture # NULL
    /\ m_samplerNameToIndex[m_textureBindings[1].samplerName] = 0

====
